---------------------------- MODULE Spec2Model ----------------------------
(***************************************************************************)
(* A model of the signed-event pipeline (base.py, daemon_heartbeat.py,     *)
(* blockchain_automation.py -> hub.py), the policy enforcer, the           *)
(* ReflectChain loggers and the agent event loop of Andrew-Lee-Cruz.       *)
(***************************************************************************)
EXTENDS Integers, Sequences, FiniteSets, TLC

VARIABLES
    rt_pc, rt_evt, rt_signed, rt_result,    \* sign / verify on one event dict
    wire, posted, q, index, resp,           \* clients -> POST /ingest -> hub
    hmac_secret, proposal, signature, policy_result,  \* policy_enforcer
    tm_in, tm_out, vq_in, vq_out,           \* get_task_mapping, validate_quantum_state
    today, files, logs, stamp_in, stamped_entry, log_call,  \* the ReflectChain loggers
    is_active, event_queue, loops, emitted, processed,   \* a BaseAgent
    devices, submissions, sim_now, sim_call, sim_task,   \* the PoAI simulator
    reflect_chain, utcnow, chain_verified,   \* ReflectChain: the entries, the clock, the last verification
    hb_pc, hb_termux, hb_battery, hb_post,   \* heartbeat daemons: position, last battery read, last POST
    engine, engine_calls,   \* BlockchainAutomationEngine: the object, the calls made on it
    connected_clients, ws_state, ws_endpoint, broadcasts, remove_calls, value_error,   \* poai-sim websockets: the client list, sockets, endpoints, broadcasts in progress
    is_running, core_pc, task_pc, agent_active, agent_queue, bus_pc, stop_completed,   \* AxiomDevCore: its flag, start(), the agent tasks and agents, the event-bus task, stop()
    chain_file, loggers, constructions   \* ReflectChain persistence: the chain file, the ReflectLogger objects, the constructions made

rt_vars  == <<rt_pc, rt_evt, rt_signed, rt_result>>
hub_vars == <<wire, posted, q, index, resp>>
pol_vars == <<hmac_secret, proposal, signature, policy_result>>
qs_vars == <<tm_in, tm_out, vq_in, vq_out>>
log_vars == <<today, files, logs, stamp_in, stamped_entry, log_call>>
ag_vars == <<is_active, event_queue, loops, emitted, processed>>
sim_vars == <<devices, submissions, sim_now, sim_call, sim_task>>
rc_vars == <<reflect_chain, utcnow, chain_verified>>
hb_vars == <<hb_pc, hb_termux, hb_battery, hb_post>>
eng_vars == <<engine, engine_calls>>
ws_vars == <<connected_clients, ws_state, ws_endpoint, broadcasts, remove_calls, value_error>>
core_vars == <<is_running, core_pc, task_pc, agent_active, agent_queue, bus_pc, stop_completed>>
pf_vars == <<chain_file, loggers, constructions>>
vars == <<rt_vars, hub_vars, pol_vars, qs_vars, log_vars, ag_vars, sim_vars, rc_vars, hb_vars, eng_vars, ws_vars, core_vars, pf_vars>>

(***************************************************************************)
(* JSON values.  A Python dict is the list of its (key, value) items in    *)
(* insertion order, which is the order json.dumps writes and json.loads    *)
(* reads back; a value is a tagged record so that values compare.          *)
(*   t = "obj"  : o is the item list                                       *)
(*   t = "str"  : an ASCII str, tok its text                               *)
(*   t = "ustr" : a str with non-ASCII characters, tok its escaped text    *)
(*   t = "num"  : an int, tok its digits                                   *)
(*   t = "null" : None                                                     *)
(*   t = "bool" : True or False, tok its JSON text                         *)
(*   t = "hex"  : the hexdigest of an HMAC with key tok over the bytes m,  *)
(*                or of sha256 over m when tok = "sha256"                  *)
(***************************************************************************)
Str(s)  == [t |-> "str",  tok |-> s,      o |-> <<>>, m |-> <<>>]
UStr(s) == [t |-> "ustr", tok |-> s,      o |-> <<>>, m |-> <<>>]
Num(s)  == [t |-> "num",  tok |-> s,      o |-> <<>>, m |-> <<>>]
Null    == [t |-> "null", tok |-> "null", o |-> <<>>, m |-> <<>>]
Obj(ps) == [t |-> "obj",  tok |-> "",     o |-> ps,   m |-> <<>>]
Item(k, v) == [k |-> k, v |-> v]

Range(s) == {s[i] : i \in DOMAIN s}
Keys(d) == {d.o[i].k : i \in DOMAIN d.o}
HasKey(d, k) == k \in Keys(d)
\* d.get(k, default)
Get(d, k, default) ==
    IF HasKey(d, k) THEN (CHOOSE p \in Range(d.o) : p.k = k).v ELSE default
\* d[k] = v : an existing key keeps its place, a new key goes last
SetKey(d, k, v) ==
    IF HasKey(d, k)
    THEN Obj([i \in DOMAIN d.o |-> IF d.o[i].k = k THEN Item(k, v) ELSE d.o[i]])
    ELSE Obj(Append(d.o, Item(k, v)))
DelKey(d, k) == Obj(SelectSeq(d.o, LAMBDA p : p.k # k))

\* Python's == on two parsed JSON values: dicts compare without order
RECURSIVE JsonEq(_, _)
JsonEq(a, b) ==
    IF a.t = "obj" /\ b.t = "obj"
    THEN /\ Keys(a) = Keys(b)
         /\ \A k \in Keys(a) : JsonEq(Get(a, k, Null), Get(b, k, Null))
    ELSE a = b

\* Every dict key of the model, in Python's str order (what sorted() and
\* sort_keys=True use).
KeyOrder ==
    << "101", "a", "affected_components", "arbitrum", "autonomous", "avalanche",
       "b", "battery", "branch", "bsc", "chain_name", "circuit_hash", "contact",
       "context", "corrective_actions", "created_at", "creator_orcid",
       "creator_uid", "deployed_at", "deployment_status",
       "deployments_completed", "description", "details", "detection_timestamp",
       "entanglement_pattern", "ethereum", "event_type", "execution_timestamp",
       "extra", "fantom", "fork_registry", "fork_result", "forks_created",
       "hash_signature", "kind", "log_type", "measurement_results", "message",
       "mitigation_actions", "nonce", "operation", "operation_type", "optimism",
       "parameters", "payload", "percentage", "polygon", "priority",
       "process_id", "project", "quantum_influenced", "quantum_signature",
       "quantum_state", "quantum_trigger_uid", "repository", "result",
       "severity", "sig", "signature", "solana", "source", "source_ip",
       "sovereignty_level", "status", "target", "task_mapping", "task_type",
       "text", "timestamp", "ts", "type", "uid", "uid_found",
       "verification_details", "verification_result", "verification_timestamp",
       "verification_type", "working_directory" >>

\* the items of a dict ordered by key
SortPairs(ps) ==
    LET ks  == {ps[i].k : i \in DOMAIN ps}
        ord == SelectSeq(KeyOrder, LAMBDA k : k \in ks)
    IN  [i \in DOMAIN ord |-> CHOOSE p \in Range(ps) : p.k = ord[i]]

Q == "\""

\* json.dumps(v, separators=(',',':'), sort_keys=sort_keys), as the list of
\* the tokens of the text it writes.  sort_keys sorts the items of every
\* dict, nested ones included; without it each dict is written in its
\* insertion order.
RECURSIVE dumps(_, _), DumpItems(_, _)
dumps(v, sort_keys) ==
    CASE v.t = "obj" ->
           <<"{">> \o DumpItems(IF sort_keys THEN SortPairs(v.o) ELSE v.o, sort_keys)
                   \o <<"}">>
      [] v.t \in {"str", "ustr"} -> <<Q, v.tok, Q>>
      [] v.t = "hex" -> <<Q, "digest(", v.tok>> \o v.m \o <<")", Q>>
      [] OTHER -> <<v.tok>>
DumpItems(ps, sort_keys) ==
    IF ps = <<>> THEN <<>>
    ELSE <<Q, ps[1].k, Q, ":">> \o dumps(ps[1].v, sort_keys)
         \o (IF Len(ps) > 1 THEN <<",">> ELSE <<>>)
         \o DumpItems(Tail(ps), sort_keys)

(***************************************************************************)
(* Keys and HMAC.  The digest is modelled collision-free: the hexdigest of *)
(* HMAC(key, body) is the value "hex" that carries key and body.           *)
(***************************************************************************)
UID == UStr("ALC-ROOT-1010-1111-XCOV\\u221e")
KEY == "sha3_256(" \o UID.tok \o "::QEL)"

hmac_new(key, body) == [t |-> "hex", tok |-> key, o |-> <<>>, m |-> body]

\* hmac.compare_digest(a, b): both must be ASCII-only str, or it raises
compare_digest(a, b) ==
    IF a.t \notin {"str", "hex"} \/ b.t \notin {"str", "hex"} THEN "TypeError"
    ELSE IF a = b THEN "True" ELSE "False"

\* base.sign / daemon_heartbeat.sign / device_agent.sign
sign(obj) == hmac_new(KEY, dumps(obj, TRUE))

\* hub.verify: the top-level keys are sorted, the body is dumped without
\* sort_keys
verify(payload) ==
    LET sig  == Get(payload, "sig", Str(""))
        body == Obj(SelectSeq(SortPairs(payload.o), LAMBDA p : p.k # "sig"))
        mac  == hmac_new(KEY, dumps(body, FALSE))
    IN  compare_digest(sig, mac)


(***************************************************************************)
(* Inputs: small sets of JSON values.                                      *)
(***************************************************************************)
MaxKeys == 2
PayloadKeys == {"a", "b", "text"}
Atoms == {Num("1"), Str("x")}

\* the lists of at most n distinct keys of K
DistinctSeqs(K, n) ==
    UNION {{s \in [1..len -> K] : \A i, j \in 1..len : i # j => s[i] # s[j]}
           : len \in 0..n}

\* the dicts with at most MaxKeys keys, in every insertion order
FlatObjs ==
    {Obj([i \in DOMAIN ks |-> Item(ks[i], vs[i])]) :
        <<ks, vs>> \in UNION {{<<ks1, vs1>> : vs1 \in [DOMAIN ks1 -> Atoms]}
                              : ks1 \in DistinctSeqs(PayloadKeys, MaxKeys)}}

\* payloads: flat dicts, and dicts holding one nested dict
Payloads == FlatObjs \cup {Obj(<<Item("battery", f)>>) : f \in FlatObjs}

\* the event dict of base.emit, daemon_heartbeat.push, device_agent.push and
\* integrate_with_hub, before it is signed
MakeEvent(kind, source, project, ts, nonce, payload) ==
    Obj(<< Item("type", Str("omni.event")), Item("uid", UID),
           Item("kind", Str(kind)), Item("source", Str(source)),
           Item("project", Str(project)), Item("ts", Num(ts)),
           Item("nonce", Num(nonce)), Item("payload", payload) >>)

\* evt["sig"] = sign(evt)
SignedEvent(evt) == SetKey(evt, "sig", sign(evt))

(***************************************************************************)
(* Tampering with a signed event: one change of one field.                 *)
(***************************************************************************)
TamperAtoms == {Num("1"), Num("2"), Str("x"), Str("y")}

\* the values that differ from v by one change inside it
RECURSIVE Changes(_)
Changes(v) ==
    IF v.t = "obj"
    THEN UNION {{SetKey(v, k, w) : w \in Changes(Get(v, k, Null))} : k \in Keys(v)}
         \cup {DelKey(v, k) : k \in Keys(v)}
         \cup (IF HasKey(v, "extra") THEN {} ELSE {SetKey(v, "extra", Num("1"))})
         \cup TamperAtoms
    ELSE {a \in TamperAtoms \cup {Obj(<<>>)} : a # v}

\* what an attacker can put in place of a signature
SigValues(evt) ==
    { Str(""), Str("deadbeef"), Null, Num("1"), UStr("\\u00e9"),
      hmac_new("sha3_256(other)", dumps(DelKey(evt, "sig"), TRUE)),
      hmac_new(KEY, dumps(SetKey(DelKey(evt, "sig"), "ts", Num("0")), TRUE)) }

Tamperings(evt) ==
    UNION {{SetKey(evt, k, w) : w \in Changes(Get(evt, k, Null))}
           : k \in Keys(evt) \ {"sig"}}
    \cup {DelKey(evt, k) : k \in Keys(evt)}
    \cup {SetKey(evt, "extra", Num("1"))}
    \cup {SetKey(evt, "sig", s) : s \in SigValues(evt) \ {Get(evt, "sig", Null)}}

(***************************************************************************)
(* The clients that post signed events, and the hub's POST /ingest.        *)
(***************************************************************************)
MaxQueue == 2
MaxIndex == 2

\* readings of time.time(): int(t) and int(t*1000) % 2**32, as JSON numbers
TsValues == {"1700000000"}
NonceValues == {"42"}

\* base.emit: the signed event it posts
emit(kind, source, project, ts, nonce, payload) ==
    LET evt == Obj(<< Item("type", Str("omni.event")), Item("uid", UID),
                      Item("kind", Str(kind)), Item("source", Str(source)),
                      Item("project", Str(project)), Item("ts", Num(ts)),
                      Item("nonce", Num(nonce)), Item("payload", payload) >>)
    IN  SetKey(evt, "sig", sign(evt))

\* push with the nonce added after signing
push_nonce_after_sign(kind, ts, nonce, data) ==
    LET payload == Obj(<< Item("type", Str("omni.event")), Item("uid", UID),
                          Item("kind", Str(kind)), Item("source", Str("s24-ultra")),
                          Item("project", Str("general")), Item("ts", Num(ts)),
                          Item("payload", data) >>)
    IN  SetKey(SetKey(payload, "sig", sign(payload)), "nonce", Num(nonce))
\* daemon_heartbeat.push / device_agent.push: the signed event it posts
push(kind, ts, nonce, data) ==
    LET payload == Obj(<< Item("type", Str("omni.event")), Item("uid", UID),
                          Item("kind", Str(kind)), Item("source", Str("s24-ultra")),
                          Item("project", Str("general")), Item("ts", Num(ts)),
                          Item("nonce", Num(nonce)), Item("payload", data) >>)
    IN  SetKey(payload, "sig", sign(payload))

\* what battery() returns: {} when termux-battery-status fails, else its JSON
BatteryReadings ==
    { Obj(<<>>),
      Obj(<<Item("percentage", Num("67")), Item("status", Str("DISCHARGING"))>>),
      Obj(<<Item("status", Str("CHARGING")), Item("percentage", Num("80"))>>) }

\* SUPPORTED_BLOCKCHAINS, in the order the dict literal lists them
SUPPORTED_BLOCKCHAINS ==
    << "ethereum", "polygon", "bsc", "avalanche", "fantom", "arbitrum",
       "optimism", "solana" >>

NumTok(n) == <<"0", "1", "2", "3", "4", "5", "6", "7", "8", "9">>[n + 1]

\* the registries of a BlockchainAutomationEngine: empty after __init__,
\* one entry per chain after generate_automated_forks and after
\* execute_automated_deployments
ForkRegistryOf(chains, quantum_result) ==
    Obj([i \in DOMAIN chains |->
          Item(chains[i],
               Obj(<< Item("chain_name", Str(chains[i])),
                      Item("fork_result", Str("fork_data")),
                      Item("created_at", Str("isoformat")),
                      Item("uid", UID),
                      Item("quantum_signature", quantum_result) >>))])
DeploymentStatusOf(chains) ==
    Obj([i \in DOMAIN chains |->
          Item(chains[i],
               Obj(<< Item("status", Str("deployed")),
                      Item("result", Str("deployment_result")),
                      Item("deployed_at", Str("isoformat")) >>))])

QuantumResults == {Obj(<<>>), Obj(<<Item("101", Num("1024"))>>)}
EngineStates ==
    {[quantum_result |-> qr, fork_registry |-> ForkRegistryOf(fc, qr),
      deployment_status |-> DeploymentStatusOf(dc)] :
        qr \in QuantumResults,
        <<fc, dc>> \in { <<(<<>>), (<<>>)>>,
                         <<SUPPORTED_BLOCKCHAINS, (<<>>)>>,
                         <<SUPPORTED_BLOCKCHAINS, SUPPORTED_BLOCKCHAINS>> }}

\* BlockchainAutomationEngine.integrate_with_hub: the signed event it posts
integrate_with_hub(self, ts, nonce) ==
    LET integration_data ==
          Obj(<< Item("type", Str("omni.event")), Item("uid", UID),
                 Item("kind", Str("blockchain_automation")),
                 Item("source", Str("violet-af-quantum")),
                 Item("project", Str("multi-chain-automation")),
                 Item("ts", Num(ts)), Item("nonce", Num(nonce)),
                 Item("payload",
                      Obj(<< Item("forks_created", Num(NumTok(Len(self.fork_registry.o)))),
                             Item("deployments_completed",
                                  Num(NumTok(Len(self.deployment_status.o)))),
                             Item("quantum_signature", self.quantum_result),
                             Item("fork_registry", self.fork_registry),
                             Item("deployment_status", self.deployment_status) >>)) >>)
    IN  SetKey(integration_data, "sig",
               hmac_new(KEY, dumps(integration_data, TRUE)))

\* str.strip() is empty
IsBlank(v) == v.tok \in {"", " "}

\* ingest with the job enqueued before the signature is checked
ingest_enqueue_first(data, q0, index0) ==
    LET ok == verify(data)
    IN  CASE ok = "TypeError" -> [status |-> 500, q |-> q0, index |-> index0]
          [] ok = "False"     -> [status |-> 403, q |-> Append(q0, data), index |-> index0]
          [] OTHER            -> [status |-> 200, q |-> Append(q0, data), index |-> index0]
\* hub.ingest on the request body data, with queue q0 and index index0:
\* the response status and the queue and index it leaves
ingest(data, q0, index0) ==
    LET ok      == verify(data)
        kind    == Get(data, "kind", Null)
        payload == Get(data, "payload", Obj(<<>>))
        text    == Get(payload, "text", Str(""))
        q1      == Append(q0, data)
        doc     == [text |-> text,
                    meta |-> [source  |-> Get(data, "source", Null),
                              project |-> Get(data, "project", Null),
                              ts      |-> Get(data, "ts", Null)]]
    IN  CASE ok = "TypeError" -> [status |-> 500, q |-> q0, index |-> index0]
          [] ok = "False"     -> [status |-> 403, q |-> q0, index |-> index0]
          [] OTHER ->
               IF kind \in {Str("chat"), Str("doc")}
               THEN IF payload.t # "obj" \/ text.t \notin {"str", "ustr"}
                    THEN [status |-> 500, q |-> q1, index |-> index0]
                    ELSE IF ~IsBlank(text)
                    THEN [status |-> 200, q |-> q1, index |-> Append(index0, doc)]
                    ELSE [status |-> 200, q |-> q1, index |-> index0]
               ELSE [status |-> 200, q |-> q1, index |-> index0]

HubPayloads ==
    { Obj(<<>>),
      Obj(<<Item("text", Str("hi"))>>),
      Obj(<<Item("text", Str(" "))>>),
      Obj(<<Item("a", Num("1")), Item("text", Str("hi"))>>),
      Obj(<<Item("text", Str("hi")), Item("a", Num("1"))>>) }

\* the (kind, payload) of the emit calls: chat events, which the hub
\* indexes, with every payload, and an alert, which it only queues
EmitInputs ==
    ({"chat"} \X HubPayloads) \cup {<<"alert", Obj(<<Item("text", Str("hi"))>>)>>}

\* what the network can do to a request body before the hub reads it
HubTamperings(evt) ==
    { SetKey(evt, "kind", Str("doc")),
      SetKey(evt, "payload", Obj(<<Item("text", Str("evil"))>>)),
      SetKey(evt, "extra", Num("1")),
      DelKey(evt, "sig"),
      SetKey(evt, "sig", Str("deadbeef")),
      SetKey(evt, "sig", Null) }

HubInit ==
    /\ wire = Null
    /\ posted = Null
    /\ q = <<>>
    /\ index = <<>>
    /\ resp = 0

\* base.emit(kind, source, project, payload): requests.post(HUB, json=evt)
Emit ==
    /\ wire = Null
    /\ \E e \in EmitInputs, ts \in TsValues, nonce \in NonceValues :
            wire' = emit(e[1], "chatgpt", "general", ts, nonce, e[2])
    /\ posted' = wire'
    /\ resp' = 0
    /\ UNCHANGED <<q, index, rt_vars, pol_vars, qs_vars, log_vars, ag_vars, sim_vars, rc_vars, hb_vars, eng_vars, ws_vars, core_vars, pf_vars>>

\* daemon_heartbeat: push("heartbeat", {"battery": battery()})
Push ==
    /\ wire = Null
    /\ \E b \in BatteryReadings, ts \in TsValues, nonce \in NonceValues :
            wire' = push("heartbeat", ts, nonce, Obj(<<Item("battery", b)>>))
    /\ posted' = wire'
    /\ resp' = 0
    /\ UNCHANGED <<q, index, rt_vars, pol_vars, qs_vars, log_vars, ag_vars, sim_vars, rc_vars, hb_vars, eng_vars, ws_vars, core_vars, pf_vars>>

\* BlockchainAutomationEngine.integrate_with_hub()
IntegrateWithHub ==
    /\ wire = Null
    /\ \E self \in EngineStates, ts \in TsValues, nonce \in NonceValues :
            wire' = integrate_with_hub(self, ts, nonce)
    /\ posted' = wire'
    /\ resp' = 0
    /\ UNCHANGED <<q, index, rt_vars, pol_vars, qs_vars, log_vars, ag_vars, sim_vars, rc_vars, hb_vars, eng_vars, ws_vars, core_vars, pf_vars>>

\* the body is changed on its way to the hub
HubTamper ==
    /\ wire # Null
    /\ wire = posted
    /\ wire' \in HubTamperings(wire)
    /\ UNCHANGED <<posted, q, index, resp, rt_vars, pol_vars, qs_vars, log_vars, ag_vars, sim_vars, rc_vars, hb_vars, eng_vars, ws_vars, core_vars, pf_vars>>

\* the body the hub accepted last (its job is the newest of the queue) is
\* posted again, byte for byte
Replay ==
    /\ wire = Null
    /\ resp = 200
    /\ q # <<>>
    /\ wire' = q[Len(q)]
    /\ UNCHANGED <<posted, q, index, resp, rt_vars, pol_vars, qs_vars, log_vars, ag_vars, sim_vars, rc_vars, hb_vars, eng_vars, ws_vars, core_vars, pf_vars>>

\* POST /ingest with the body on the wire
Ingest ==
    /\ wire # Null
    /\ Len(q) < MaxQueue
    /\ Len(index) < MaxIndex
    /\ LET r == ingest(wire, q, index)
       IN  /\ q' = r.q
           /\ index' = r.index
           /\ resp' = r.status
    /\ wire' = Null
    /\ UNCHANGED <<posted, rt_vars, pol_vars, qs_vars, log_vars, ag_vars, sim_vars, rc_vars, hb_vars, eng_vars, ws_vars, core_vars, pf_vars>>

\* the rq worker takes the oldest job and runs jobs.handle_event on it
HandleEvent ==
    /\ q # <<>>
    /\ q' = Tail(q)
    /\ UNCHANGED <<wire, posted, index, resp, rt_vars, pol_vars, qs_vars, log_vars, ag_vars, sim_vars, rc_vars, hb_vars, eng_vars, ws_vars, core_vars, pf_vars>>

HubNext ==
    Emit \/ Push \/ IntegrateWithHub \/ HubTamper \/ Replay \/ Ingest \/ HandleEvent


EventFields ==
    {"type", "uid", "kind", "source", "project", "ts", "nonce", "payload", "sig"}

\* C3: every event a client posts has exactly the nine fields, type
\* "omni.event", the hardcoded uid, and a sig that is the HMAC of the
\* sorted compact JSON of the eight other fields as they are sent.
C3_SignedEventFormat ==
    posted # Null =>
        /\ Len(posted.o) = 9
        /\ Keys(posted) = EventFields
        /\ Get(posted, "type", Null) = Str("omni.event")
        /\ Get(posted, "uid", Null) = UID
        /\ Get(posted, "sig", Null)
             = hmac_new(KEY, dumps(DelKey(posted, "sig"), TRUE))
C3_Witness ==
    /\ posted # Null
    /\ Get(posted, "kind", Null) = Str("blockchain_automation")
    /\ Len(Get(Get(posted, "payload", Null), "fork_registry", Null).o) = 8

\* C4: a request whose signature hub.verify finds False is answered 403 and
\* leaves the job queue and the vector index as they were.
C4_RejectedChangesNothing ==
    [][(wire # Null /\ wire' = Null /\ verify(wire) = "False")
          => (resp' = 403 /\ q' = q /\ index' = index)]_vars
C4_Witness ==
    resp = 403 /\ wire = Null /\ q # <<>>

\* the step is POST /ingest on a body identical to the one accepted last
IngestOfReplay ==
    /\ wire # Null /\ wire' = Null
    /\ resp = 200 /\ q # <<>> /\ wire = q[Len(q)]

\* C12: a signed event that /ingest has accepted is rejected, neither
\* enqueued nor indexed again, when the identical body (same ts, nonce and
\* sig) is posted a second time.
C12_ReplayRejected ==
    [][IngestOfReplay => (resp' # 200 /\ q' = q /\ index' = index)]_vars

(***************************************************************************)
(* Sign, (tamper,) verify on one event dict.                               *)
(***************************************************************************)
EventInputs ==
    {MakeEvent(kind, "src", "general", "1700000000", "42", p) :
        kind \in {"chat", "heartbeat"}, p \in Payloads}

\* no event under test
RtIdle ==
    /\ rt_pc = "idle"
    /\ rt_evt = Null
    /\ rt_signed = Null
    /\ rt_result = "none"

RtInit ==
    /\ rt_pc = "built"
    /\ rt_evt \in EventInputs
    /\ rt_signed = Null
    /\ rt_result = "none"

\* evt["sig"] = sign(evt)
RtSign ==
    /\ rt_pc = "built"
    /\ rt_evt' = SignedEvent(rt_evt)
    /\ rt_signed' = rt_evt'
    /\ rt_pc' = "signed"
    /\ UNCHANGED <<rt_result, hub_vars, pol_vars, qs_vars, log_vars, ag_vars, sim_vars, rc_vars, hb_vars, eng_vars, ws_vars, core_vars, pf_vars>>

\* one field of the signed event is changed, added or removed
RtTamper ==
    /\ rt_pc = "signed"
    /\ rt_evt' \in Tamperings(rt_evt)
    /\ rt_pc' = "tampered"
    /\ UNCHANGED <<rt_signed, rt_result, hub_vars, pol_vars, qs_vars, log_vars, ag_vars, sim_vars, rc_vars, hb_vars, eng_vars, ws_vars, core_vars, pf_vars>>

\* hub.verify(evt)
RtVerify ==
    /\ rt_pc \in {"signed", "tampered"}
    /\ rt_result' = verify(rt_evt)
    /\ rt_pc' = "verified"
    /\ UNCHANGED <<rt_evt, rt_signed, hub_vars, pol_vars, qs_vars, log_vars, ag_vars, sim_vars, rc_vars, hb_vars, eng_vars, ws_vars, core_vars, pf_vars>>

RtNext == RtSign \/ RtTamper \/ RtVerify


\* C1: an event signed with base.sign and passed unchanged to hub.verify is
\* accepted: verify returns True.
C1_SignVerifyRoundTrip ==
    (rt_pc = "verified" /\ rt_evt = rt_signed) => rt_result = "True"

\* the round trip does succeed for payloads whose nested dicts were built in
\* sorted key order
RtSortedInside(evt) ==
    dumps(Get(evt, "payload", Null), TRUE) = dumps(Get(evt, "payload", Null), FALSE)
RoundTripWhenSorted ==
    (rt_pc = "verified" /\ rt_evt = rt_signed /\ RtSortedInside(rt_evt))
        => rt_result = "True"

\* C2: after any single change to a signed event (a field's value, a field
\* added or removed, the sig itself) hub.verify returns False.
C2_TamperDetected ==
    (rt_pc = "verified" /\ ~JsonEq(rt_evt, rt_signed)) => rt_result = "False"

\* no tampered event is ever accepted: verify returns False, or raises when
\* the sig is not an ASCII str
TamperNeverAccepted ==
    (rt_pc = "verified" /\ ~JsonEq(rt_evt, rt_signed)) => rt_result # "True"
TamperWithStrSigRejected ==
    (rt_pc = "verified" /\ ~JsonEq(rt_evt, rt_signed)
        /\ Get(rt_evt, "sig", Str("")).t \in {"str", "hex"}) => rt_result = "False"
\* every tampering is a change of the event as a JSON value
TamperingsChange ==
    rt_pc = "tampered" => ~JsonEq(rt_evt, rt_signed)

(***************************************************************************)
(* policy_enforcer.py: CruzTheoremPolicyEnforcer.                          *)
(* A proposal is a record of its fields; Missing stands for an absent key, *)
(* NonStr for a JSON value that is not a str, and a dict-valued field      *)
(* carries kind "dict", "missing" or "other" (any JSON value but a dict).  *)
(***************************************************************************)
Missing == "<missing>"
NonStr  == "<non-str>"

CREATOR_UID   == "ALC-ROOT-1010-1111-XCOV\\u221e"
CREATOR_EMAIL == "allcatch37@gmail.com"

\* d.get(key, '')
GetStr(v) == IF v = Missing THEN "" ELSE v

PolicyResult(action, rule_id) == [action |-> action, rule_id |-> rule_id]
\* the validation raised instead of returning a PolicyResult
Raised(exc) == [action |-> "raise", rule_id |-> exc]

validate_creator_authorization(p) ==
    LET creator_uid   == GetStr(p.creator_uid)
        creator_email == GetStr(p.creator_email)
    IN  IF creator_uid # CREATOR_UID
        THEN PolicyResult("REJECT_IMMEDIATE", "CREATOR_UID_VERIFICATION")
        ELSE IF creator_email # CREATOR_EMAIL
        THEN PolicyResult("REJECT_IMMEDIATE", "CREATOR_EMAIL_VERIFICATION")
        ELSE PolicyResult("ACCEPT", "CREATOR_VERIFICATION")

valid_states == {"000", "001", "010", "011", "100", "101", "110", "111"}

\* the table with the tasks of "110" and "111" exchanged
task_mappings_exchanged ==
    [s \in valid_states |->
        CASE s = "101" -> "generate_webapk_manifest"
          [] s = "100" -> "deploy_cloudflare_worker"
          [] s = "011" -> "configure_zero_trust"
          [] s = "010" -> "update_github_security"
          [] s = "001" -> "mint_infinity_claim"
          [] s = "000" -> "reflect_chain_sync"
          [] s = "110" -> "emergency_protocols"
          [] s = "111" -> "autonomous_maintenance"]
\* the enforcer's own table (validate_quantum_state)
task_mappings ==
    [s \in valid_states |->
        CASE s = "101" -> "generate_webapk_manifest"
          [] s = "100" -> "deploy_cloudflare_worker"
          [] s = "011" -> "configure_zero_trust"
          [] s = "010" -> "update_github_security"
          [] s = "001" -> "mint_infinity_claim"
          [] s = "000" -> "reflect_chain_sync"
          [] s = "110" -> "autonomous_maintenance"
          [] s = "111" -> "emergency_protocols"]

validate_quantum_state(p) ==
    LET quantum_data  == p.quantum_data
        quantum_state == IF quantum_data.kind = "dict"
                         THEN GetStr(quantum_data.state) ELSE ""
        proposed_task == IF quantum_data.kind = "dict"
                         THEN GetStr(quantum_data.task) ELSE ""
    IN  IF quantum_data.kind = "other" THEN Raised("AttributeError")
        ELSE IF quantum_state \notin valid_states
        THEN PolicyResult("REJECT_WITH_ERROR", "VIOLET_AF_STATE_VALIDATION")
        ELSE IF proposed_task # task_mappings[quantum_state]
        THEN PolicyResult("REJECT_WITH_ALTERNATIVE", "TASK_MAPPING_VERIFICATION")
        ELSE PolicyResult("ACCEPT", "QUANTUM_VALIDATION")

\* str.lower() on the targets of the model
Lower(s) ==
    CASE s = "Ethereum"  -> "ethereum"
      [] s = "OMNICHAIN" -> "omnichain"
      [] OTHER -> s

valid_targets == {"floating_dragon", "omnichain", "ethereum"}

HexChars ==
    {"0", "1", "2", "3", "4", "5", "6", "7", "8", "9",
     "a", "b", "c", "d", "e", "f", "A", "B", "C", "D", "E", "F"}

\* re.match(r'^0x[a-fA-F0-9]{40}$', a) on the list of a's characters;
\* $ also matches before a final newline
MatchesAddress(a) ==
    /\ Len(a) \in {42, 43}
    /\ a[1] = "0" /\ a[2] = "x"
    /\ \A i \in 3..42 : a[i] \in HexChars
    /\ Len(a) = 43 => a[43] = "\n"

validate_blockchain_operations(p) ==
    LET blockchain_data  == p.blockchain_data
        raw_target       == IF blockchain_data.kind = "dict"
                            THEN GetStr(blockchain_data.target) ELSE ""
        target           == Lower(raw_target)
        contract_address == IF blockchain_data.kind = "dict"
                            THEN blockchain_data.contract_address ELSE <<>>
    IN  IF blockchain_data.kind = "other" \/ raw_target = NonStr
        THEN Raised("AttributeError")
        ELSE IF target \notin valid_targets
        THEN PolicyResult("REJECT_WITH_ALTERNATIVE", "FLOATING_DRAGON_VERIFICATION")
        ELSE IF contract_address # <<>> /\ ~MatchesAddress(contract_address)
        THEN PolicyResult("REJECT_WITH_ERROR", "INFINITY_CLAIM_VALIDATION")
        ELSE PolicyResult("ACCEPT", "BLOCKCHAIN_VALIDATION")

protected_endpoints == {"/init", "/mint", "/setProvenance"}

validate_security_requirements(p) ==
    LET security_data    == p.security_data
        endpoint         == IF security_data.kind = "dict"
                            THEN GetStr(security_data.endpoint) ELSE ""
        authorized_email == IF security_data.kind = "dict"
                            THEN GetStr(security_data.authorized_email) ELSE ""
    IN  IF security_data.kind = "other" THEN Raised("AttributeError")
        ELSE IF endpoint \in protected_endpoints /\ authorized_email # CREATOR_EMAIL
        THEN PolicyResult("REJECT_AND_LOG", "ZERO_TRUST_ACCESS")
        ELSE IF p.git_operation /\ ~p.signed_commit
        THEN PolicyResult("REJECT_WITH_ERROR", "SIGNED_COMMIT_REQUIREMENT")
        ELSE PolicyResult("ACCEPT", "SECURITY_VALIDATION")

validate_axiom_compliance(p) ==
    IF GetStr(p.operation_layer) = "orchestration" /\ p.command_authority
    THEN PolicyResult("REJECT_PERMANENT", "SOVEREIGN_HIERARCHY_VIOLATION")
    ELSE IF p.state_mutation /\ p.ai_output_dependency
    THEN PolicyResult("REJECT_PERMANENT", "DETERMINISM_VIOLATION")
    ELSE IF p.state_mutation /\ ~p.deterministic_rules
    THEN PolicyResult("REJECT_WITH_ERROR", "DETERMINISM_REQUIREMENT")
    ELSE PolicyResult("ACCEPT", "AXIOM_COMPLIANCE")

\* the names of the validations, in the order of enforce_policy's list
validations ==
    << "validate_creator_authorization", "validate_quantum_state",
       "validate_blockchain_operations", "validate_security_requirements",
       "validate_axiom_compliance" >>

\* validation_func(proposal)
Validate(name, p) ==
    CASE name = "validate_creator_authorization" -> validate_creator_authorization(p)
      [] name = "validate_quantum_state"         -> validate_quantum_state(p)
      [] name = "validate_blockchain_operations" -> validate_blockchain_operations(p)
      [] name = "validate_security_requirements" -> validate_security_requirements(p)
      [] name = "validate_axiom_compliance"      -> validate_axiom_compliance(p)

\* A signature string is "sha256=" (when prefix) followed by the str s.
Sig(prefix, s) == [prefix |-> prefix, s |-> s]
NoSignature == Sig(FALSE, Str(""))

\* verify_signature(payload, signature) with self.hmac_secret = secret
verify_signature(secret, payload, sig) ==
    IF secret = "" THEN "True"
    ELSE compare_digest(hmac_new(secret, payload), sig.s)

\* the loop without its early return: every validation is evaluated and the
\* last that does not accept decides
ValidationChainToEnd(p, i, evaluated) ==
    LET bad == {j \in i..Len(validations) : Validate(validations[j], p).action # "ACCEPT"}
    IN  IF bad = {}
        THEN [action |-> "ACCEPT", rule_id |-> "FULL_VALIDATION", evaluated |-> validations]
        ELSE LET j == CHOOSE k \in bad : \A h \in bad : h <= k
                 result == Validate(validations[j], p)
             IN  IF result.action = "raise"
                 THEN [action |-> "REJECT_WITH_ERROR", rule_id |-> "VALIDATION_ERROR",
                       evaluated |-> validations]
                 ELSE [action |-> result.action, rule_id |-> result.rule_id,
                       evaluated |-> validations]
\* the for loop of enforce_policy from validation i on; evaluated lists the
\* validations called so far
RECURSIVE ValidationChain(_, _, _)
ValidationChain(p, i, evaluated) ==
    IF i > Len(validations)
    THEN [action |-> "ACCEPT", rule_id |-> "FULL_VALIDATION", evaluated |-> evaluated]
    ELSE LET result == Validate(validations[i], p)
             ev     == Append(evaluated, validations[i])
         IN  IF result.action = "raise"
             THEN [action |-> "REJECT_WITH_ERROR", rule_id |-> "VALIDATION_ERROR",
                   evaluated |-> ev]
             ELSE IF result.action # "ACCEPT"
             THEN [action |-> result.action, rule_id |-> result.rule_id,
                   evaluated |-> ev]
             ELSE ValidationChain(p, i + 1, ev)

\* enforce_policy(proposal, signature): the PolicyResult returned (action
\* "raise" when the call raises) and the validations it called
enforce_policy(secret, p, sig) ==
    LET checked == IF sig = NoSignature THEN "True"
                   ELSE verify_signature(secret, <<p>>, sig)
    IN  CASE checked = "TypeError" ->
               [action |-> "raise", rule_id |-> "TypeError", evaluated |-> <<>>]
          [] checked = "False" ->
               [action |-> "REJECT_IMMEDIATE", rule_id |-> "SIGNATURE_VERIFICATION",
                evaluated |-> <<>>]
          [] OTHER -> ValidationChain(p, 1, <<>>)

\* the characters of a contract address
Rep(c, n) == [i \in 1..n |-> c]
GoodAddress  == <<"0", "x">> \o Rep("a", 20) \o Rep("F", 20)
ShortAddress == <<"0", "x">> \o Rep("a", 39)
NewlineAddress == GoodAddress \o <<"\n">>

QuantumData(state, task) == [kind |-> "dict", state |-> state, task |-> task]
NoQuantumData == [kind |-> "missing", state |-> Missing, task |-> Missing]
BadQuantumData == [kind |-> "other", state |-> Missing, task |-> Missing]
BlockchainData(target, contract_address) ==
    [kind |-> "dict", target |-> target, contract_address |-> contract_address]
SecurityData(endpoint, authorized_email) ==
    [kind |-> "dict", endpoint |-> endpoint, authorized_email |-> authorized_email]
NoSecurityData == [kind |-> "missing", endpoint |-> Missing, authorized_email |-> Missing]

CreatorVariants ==
    { <<CREATOR_UID, CREATOR_EMAIL>>, <<"intruder", CREATOR_EMAIL>>,
      <<CREATOR_UID, "eve@example.com">>, <<Missing, CREATOR_EMAIL>>,
      <<CREATOR_UID, Missing>>, <<"intruder", "eve@example.com">> }
QuantumVariants ==
    { QuantumData("101", "generate_webapk_manifest"),
      QuantumData("101", "emergency_protocols"),
      QuantumData("1010", "generate_webapk_manifest"),
      NoQuantumData, BadQuantumData }
BlockchainVariants ==
    { BlockchainData("ethereum", <<>>), BlockchainData("Ethereum", GoodAddress),
      BlockchainData("bitcoin", <<>>), BlockchainData("omnichain", ShortAddress),
      BlockchainData("floating_dragon", NewlineAddress),
      BlockchainData(NonStr, <<>>), BlockchainData(Missing, <<>>) }
SecurityVariants ==
    { <<NoSecurityData, FALSE, FALSE>>,
      <<SecurityData("/mint", CREATOR_EMAIL), FALSE, FALSE>>,
      <<SecurityData("/mint", "eve@example.com"), FALSE, FALSE>>,
      <<SecurityData("/status", Missing), TRUE, FALSE>>,
      <<SecurityData("/init", Missing), TRUE, TRUE>>,
      <<SecurityData("/status", Missing), TRUE, TRUE>> }
\* operation_layer, command_authority, state_mutation, ai_output_dependency,
\* deterministic_rules
AxiomVariants ==
    { <<Missing, FALSE, FALSE, FALSE, FALSE>>,
      <<"orchestration", TRUE, FALSE, FALSE, FALSE>>,
      <<"orchestration", FALSE, TRUE, TRUE, TRUE>>,
      <<"execution", TRUE, TRUE, FALSE, FALSE>>,
      <<"execution", TRUE, TRUE, FALSE, TRUE>> }

Proposal(c, qd, bd, sec, ax) ==
    [ creator_uid |-> c[1], creator_email |-> c[2],
      quantum_data |-> qd, blockchain_data |-> bd,
      security_data |-> sec[1], git_operation |-> sec[2], signed_commit |-> sec[3],
      operation_layer |-> ax[1], command_authority |-> ax[2],
      state_mutation |-> ax[3], ai_output_dependency |-> ax[4],
      deterministic_rules |-> ax[5] ]

Proposals ==
    {Proposal(c, qd, bd, sec, ax) :
        c \in CreatorVariants, qd \in QuantumVariants, bd \in BlockchainVariants,
        sec \in SecurityVariants, ax \in AxiomVariants}

\* the signature a caller passes with proposal p: none, the HMAC under the
\* deployment's secret (bare or with the sha256= prefix), the prefix alone,
\* a wrong digest, an HMAC under another secret, a str that is not ASCII
Signatures(p) ==
    { NoSignature,
      Sig(FALSE, hmac_new("s3cr3t", <<p>>)), Sig(TRUE, hmac_new("s3cr3t", <<p>>)),
      Sig(TRUE, Str("")), Sig(FALSE, Str("deadbeef")),
      Sig(FALSE, hmac_new("guess", <<p>>)), Sig(FALSE, UStr("\\u00e9")) }

NoResult == [action |-> "none", rule_id |-> "", evaluated |-> <<>>]
SomeProposal == CHOOSE p \in Proposals : TRUE

\* CruzTheoremPolicyEnforcer() with FD_HMAC_SECRET unset or set, and the
\* arguments of the call to come
PolInit ==
    /\ hmac_secret \in {"", "s3cr3t"}
    /\ proposal \in Proposals
    /\ signature \in Signatures(proposal)
    /\ policy_result = NoResult
PolIdle ==
    /\ hmac_secret = ""
    /\ proposal = SomeProposal
    /\ signature = NoSignature
    /\ policy_result = NoResult

\* enforcer.enforce_policy(proposal, signature)
EnforcePolicy ==
    /\ policy_result = NoResult
    /\ policy_result' = enforce_policy(hmac_secret, proposal, signature)
    /\ UNCHANGED <<hmac_secret, proposal, signature, rt_vars, hub_vars, qs_vars, log_vars, ag_vars, sim_vars, rc_vars, hb_vars, eng_vars, ws_vars, core_vars, pf_vars>>

PolNext == EnforcePolicy

Called == policy_result.action # "none"
Returned == policy_result.action \notin {"none", "raise"}
Authorized(p) ==
    p.creator_uid = CREATOR_UID /\ p.creator_email = CREATOR_EMAIL

\* C5: ACCEPT only for the authorised creator, and every proposal from
\* anyone else is rejected with REJECT_IMMEDIATE, whatever the signature.
C5_SingleCreator ==
    Called =>
        /\ policy_result.action = "ACCEPT" => Authorized(proposal)
        /\ ~Authorized(proposal) => policy_result.action = "REJECT_IMMEDIATE"

\* what does hold: nobody else is ever accepted, and whenever
\* enforce_policy returns for an unauthorised proposal it returns
\* REJECT_IMMEDIATE
UnauthorizedNeverAccepted ==
    Called => (policy_result.action = "ACCEPT" => Authorized(proposal))
UnauthorizedRejectedWhenReturned ==
    (Returned /\ ~Authorized(proposal)) => policy_result.action = "REJECT_IMMEDIATE"

\* the outcome of each validation on its own, and the first that does not
\* accept
Outcome(i) == Validate(validations[i], proposal)
FirstRejecting ==
    {i \in 1..5 : /\ Outcome(i).action # "ACCEPT"
                  /\ \A j \in 1..(i - 1) : Outcome(j).action = "ACCEPT"}
\* the result enforce_policy gives for validation i's outcome
ResultOf(i) ==
    IF Outcome(i).action = "raise"
    THEN PolicyResult("REJECT_WITH_ERROR", "VALIDATION_ERROR")
    ELSE Outcome(i)
ChainAsClaimed ==
    /\ \A i \in FirstRejecting :
         /\ PolicyResult(policy_result.action, policy_result.rule_id) = ResultOf(i)
         /\ policy_result.evaluated = SubSeq(validations, 1, i)
    /\ FirstRejecting = {} => policy_result.evaluated = validations
    /\ (policy_result.action = "ACCEPT" /\ policy_result.rule_id = "FULL_VALIDATION")
          <=> FirstRejecting = {}

\* C6 as stated: the result enforce_policy returns is that of the first of
\* the five validations that does not accept, no later one is evaluated,
\* and it is ACCEPT / FULL_VALIDATION iff all five accept.
C6_Original ==
    Returned => ChainAsClaimed

SignatureCheck ==
    IF signature = NoSignature THEN "True"
    ELSE verify_signature(hmac_secret, <<proposal>>, signature)

\* C6 amended: the signature check comes first.  A signature that is given
\* and does not verify gives REJECT_IMMEDIATE / SIGNATURE_VERIFICATION with
\* no validation evaluated, and one that cannot be compared makes the call
\* raise; otherwise the five validations run in order up to the first that
\* does not accept (one that raises counts as REJECT_WITH_ERROR /
\* VALIDATION_ERROR), and the result is ACCEPT / FULL_VALIDATION iff the
\* signature check passed and all five accept.
C6_ChecksInOrder ==
    Called =>
        CASE SignatureCheck = "False" ->
               policy_result = [action |-> "REJECT_IMMEDIATE",
                                rule_id |-> "SIGNATURE_VERIFICATION",
                                evaluated |-> <<>>]
          [] SignatureCheck = "TypeError" ->
               policy_result.action = "raise" /\ policy_result.evaluated = <<>>
          [] OTHER -> Returned /\ ChainAsClaimed
\* a third validation rejects after two accepted, under a signature that
\* verifies
C6_Witness ==
    /\ Returned
    /\ signature # NoSignature
    /\ hmac_secret # ""
    /\ policy_result.rule_id = "FLOATING_DRAGON_VERIFICATION"
    /\ Outcome(4).action # "ACCEPT"

(***************************************************************************)
(* VioletAfQuantumAgent.get_task_mapping against the enforcer's            *)
(* validate_quantum_state.                                                 *)
(***************************************************************************)
\* VioletAfQuantumAgent.TASK_MAPPINGS
TASK_MAPPINGS ==
    [s \in {"101", "100", "011", "010", "001", "000", "110", "111"} |->
        CASE s = "101" -> "generate_webapk_manifest"
          [] s = "100" -> "deploy_cloudflare_worker"
          [] s = "011" -> "configure_zero_trust"
          [] s = "010" -> "update_github_security"
          [] s = "001" -> "mint_infinity_claim"
          [] s = "000" -> "reflect_chain_sync"
          [] s = "110" -> "autonomous_maintenance"
          [] s = "111" -> "emergency_protocols"]

\* self.TASK_MAPPINGS.get(quantum_state, "unknown_task")
get_task_mapping(quantum_state) ==
    IF quantum_state \in DOMAIN TASK_MAPPINGS
    THEN TASK_MAPPINGS[quantum_state] ELSE "unknown_task"

Bits == {"0", "1"}
ThreeBitStrings == {a \o b \o c : a \in Bits, b \in Bits, c \in Bits}
TaskNames ==
    { "generate_webapk_manifest", "deploy_cloudflare_worker", "configure_zero_trust",
      "update_github_security", "mint_infinity_claim", "reflect_chain_sync",
      "autonomous_maintenance", "emergency_protocols" }

StateInputs == ThreeBitStrings \cup {"", "1010", "10", "abc"}
\* the proposals that differ in quantum_data alone
BaseProposal ==
    Proposal(<<CREATOR_UID, CREATOR_EMAIL>>, NoQuantumData,
             BlockchainData("ethereum", <<>>), <<NoSecurityData, FALSE, FALSE>>,
             <<Missing, FALSE, FALSE, FALSE, FALSE>>)
QuantumInputs ==
    {[BaseProposal EXCEPT !.quantum_data = qd] :
        qd \in {NoQuantumData, BadQuantumData}
               \cup {QuantumData(st, task) :
                        st \in ThreeBitStrings \cup {"1010", Missing},
                        task \in TaskNames \cup {"unknown_task", Missing}}}

QsInit ==
    /\ tm_in \in StateInputs
    /\ tm_out = "none"
    /\ vq_in \in QuantumInputs
    /\ vq_out = PolicyResult("none", "")
QsIdle ==
    /\ tm_in = ""
    /\ tm_out = "none"
    /\ vq_in = BaseProposal
    /\ vq_out = PolicyResult("none", "")

\* agent.get_task_mapping(quantum_state)
GetTaskMapping ==
    /\ tm_out = "none"
    /\ tm_out' = get_task_mapping(tm_in)
    /\ UNCHANGED <<tm_in, vq_in, vq_out, rt_vars, hub_vars, pol_vars, log_vars, ag_vars, sim_vars, rc_vars, hb_vars, eng_vars, ws_vars, core_vars, pf_vars>>

\* enforcer.validate_quantum_state(proposal)
ValidateQuantumState ==
    /\ vq_out.action = "none"
    /\ vq_out' = validate_quantum_state(vq_in)
    /\ UNCHANGED <<tm_in, tm_out, vq_in, rt_vars, hub_vars, pol_vars, log_vars, ag_vars, sim_vars, rc_vars, hb_vars, eng_vars, ws_vars, core_vars, pf_vars>>

QsNext == GetTaskMapping \/ ValidateQuantumState

\* C10: get_task_mapping gives a task name for each of the eight 3-bit
\* strings and "unknown_task" for anything else; validate_quantum_state
\* accepts a (state, task) pair exactly when the state is one of the eight
\* and the task is get_task_mapping(state); the two tables agree.
C10_FixedLookupTable ==
    /\ tm_out # "none" =>
          /\ tm_in \in ThreeBitStrings => tm_out \in TaskNames
          /\ tm_in \notin ThreeBitStrings => tm_out = "unknown_task"
    /\ vq_out.action # "none" =>
          (vq_out.action = "ACCEPT"
             <=> /\ vq_in.quantum_data.kind = "dict"
                 /\ vq_in.quantum_data.state \in ThreeBitStrings
                 /\ vq_in.quantum_data.task
                      = get_task_mapping(vq_in.quantum_data.state))
    /\ \A st \in ThreeBitStrings : task_mappings[st] = get_task_mapping(st)
C10_Witness ==
    /\ tm_in = "110" /\ tm_out = "autonomous_maintenance"
    /\ vq_in.quantum_data.state = "110"
    /\ vq_in.quantum_data.task = "emergency_protocols"
    /\ vq_out.action = "REJECT_WITH_ALTERNATIVE"

(***************************************************************************)
(* The ReflectChain loggers: axiom_dev_core.reflect_logger.ReflectLogger   *)
(* (stamp_entry, log_github_operation, log_agent_task) and violet-af's     *)
(* ReflectLogger (log, _write_log), and the log files they write.  A file  *)
(* is the list of its lines, a line the list of the tokens of its text.    *)
(***************************************************************************)
MaxCalls == 3

Bool(b) ==
    [t |-> "bool", tok |-> IF b THEN "true" ELSE "false", o |-> <<>>, m |-> <<>>]

\* json.dumps(v, sort_keys=sort_keys) with the default separators ", " and
\* ": ", as the list of the tokens of the text it writes
RECURSIVE json_dumps(_, _), JsonDumpItems(_, _)
json_dumps(v, sort_keys) ==
    IF v.t = "obj"
    THEN <<"{">> \o JsonDumpItems(IF sort_keys THEN SortPairs(v.o) ELSE v.o, sort_keys)
                 \o <<"}">>
    ELSE dumps(v, sort_keys)
JsonDumpItems(ps, sort_keys) ==
    IF ps = <<>> THEN <<>>
    ELSE <<Q, ps[1].k, Q, ": ">> \o json_dumps(ps[1].v, sort_keys)
         \o (IF Len(ps) > 1 THEN <<", ">> ELSE <<>>)
         \o JsonDumpItems(Tail(ps), sort_keys)

\* {**d, **e} and d.update(e): the items of e are set in d one by one
RECURSIVE Update(_, _)
Update(d, e) ==
    IF e.o = <<>> THEN d
    ELSE Update(SetKey(d, e.o[1].k, e.o[1].v), Obj(Tail(e.o)))

\* readings of int(time.time() * 1000), and the same modulo 2**32
MsValues == {"1700000000000", "1700000000001"}
Mod32(ms) ==
    CASE ms = "1700000000000" -> "3487918080"
      [] ms = "1700000000001" -> "3487918081"

\* ReflectLogger.stamp_entry(entry) of a logger with self.uid = uid, the
\* clock reading ms when timestamp is taken and ms2 when nonce is taken
stamp_entry(uid, entry, ms, ms2) ==
    LET stamped   == Update(Obj(<< Item("uid", uid),
                                   Item("timestamp", Num(ms)),
                                   Item("nonce", Num(Mod32(ms2))) >>), entry)
        body      == dumps(stamped, TRUE)
    IN  SetKey(stamped, "signature", hmac_new(KEY, body))

\* the entry log_github_operation(operation, details) stamps
github_operation_entry(operation, details) ==
    Obj(<< Item("type", Str("github_operation")), Item("operation", Str(operation)),
           Item("details", details), Item("contact", Str("allcatch37@gmail.com")) >>)
\* the entry log_agent_task(task_type, result) stamps
agent_task_entry(task_type, result) ==
    Obj(<< Item("type", Str("agent_task")), Item("task_type", Str(task_type)),
           Item("result", result), Item("contact", Str("allcatch37@gmail.com")) >>)

\* time.strftime('%Y%m%d') on two consecutive days
Days == <<"20250101", "20250102">>
\* self.log_dir / f"reflect_chain_{time.strftime('%Y%m%d')}.json"
ChainFile(day) == "reflect_chain_" \o day \o ".json"
\* violet-af ReflectLogger().log_file
VioletLogFile == "reflect_logs.jsonl"
LogFiles == {ChainFile(Days[i]) : i \in DOMAIN Days} \cup {VioletLogFile}

\* the same with mode "w": the file is truncated first
open_w_write(content, text) == <<text>>
\* with open(log_file, "a") as f: f.write(text), on a file holding content
open_a_write(content, text) == Append(content, text)

CREATOR_ORCID == "0009-0000-3695-1084"
sha256(content) == [t |-> "hex", tok |-> "sha256", o |-> <<>>, m |-> content]

\* violet-af ReflectLogger.log: asdict() of the ReflectLog it builds
reflect_log(log_type, message, context, quantum_influenced, timestamp) ==
    LET ctx == Update(context,
                      Obj(<< Item("creator_uid", UID),
                             Item("creator_orcid", Str(CREATOR_ORCID)),
                             Item("process_id", Num("4242")),
                             Item("working_directory", Str("/repo")) >>))
        log_content == <<log_type, "|", message, "|">> \o json_dumps(ctx, TRUE)
                          \o <<"|", UID.tok>>
        hash_signature == sha256(log_content)
    IN  Obj(<< Item("uid", UID), Item("timestamp", Num(timestamp)),
               Item("log_type", Str(log_type)), Item("message", Str(message)),
               Item("context", ctx),
               Item("quantum_influenced", Bool(quantum_influenced)),
               Item("hash_signature", hash_signature) >>)

\* entries handed to stamp_entry: none, one or two keys, the stamp's own
\* key names among them
StampKeys == {"type", "uid", "timestamp", "nonce", "signature"}
StampEntries ==
    {Obj(<<>>)}
    \cup {Obj(<<Item(k, v)>>) : k \in StampKeys, v \in {Str("intruder"), Num("7")}}
    \cup {Obj(<<Item(k1, v1), Item(k2, v2)>>) :
             <<k1, k2>> \in {kk \in StampKeys \X StampKeys : kk[1] # kk[2]},
             v1 \in {Str("intruder"), Num("7")}, v2 \in {Str("intruder"), Num("7")}}
\* the arguments of a stamp_entry call and the two clock readings it takes
StampInputs ==
    {[entry |-> e, ms |-> ms, ms2 |-> ms2] :
        e \in StampEntries, ms \in MsValues, ms2 \in MsValues}
NoStampInput == [entry |-> Obj(<<>>), ms |-> "none", ms2 |-> "none"]
Operations == {"write_file"}
TaskTypes == {"quantum_compile"}
Details ==
    { Obj(<<Item("status", Str("success"))>>),
      Obj(<<Item("uid", Str("intruder")), Item("status", Str("error"))>>) }
Results == {Obj(<<Item("status", Str("success"))>>)}
Messages == {"Repository created"}
Contexts == {Obj(<<>>), Obj(<<Item("repository", Str("r")), Item("creator_uid", Str("x"))>>)}

NoCall == [n |-> 0, op |-> "none", outcome |-> "none"]
\* both ReflectLogger.__init__: no file written, no call made
LoggersInit ==
    /\ today = Days[1]
    /\ files = [f \in LogFiles |-> <<>>]
    /\ logs = <<>>
    /\ stamped_entry = Null
    /\ log_call = NoCall
LogInit == LoggersInit /\ stamp_in = NoStampInput
\* a stamp_entry call is to come
StampInit == LoggersInit /\ stamp_in \in StampInputs

\* logger.stamp_entry(entry)
StampEntry ==
    /\ log_call = NoCall
    /\ stamp_in # NoStampInput
    /\ stamped_entry' = stamp_entry(UID, stamp_in.entry, stamp_in.ms, stamp_in.ms2)
    /\ log_call' = [n |-> 1, op |-> "stamp_entry", outcome |-> "returned"]
    /\ UNCHANGED <<today, files, logs, stamp_in,
                   rt_vars, hub_vars, pol_vars, qs_vars, ag_vars, sim_vars, rc_vars, hb_vars, eng_vars, ws_vars, core_vars, pf_vars>>

\* logger.log_github_operation(operation, details); open() or write() may
\* raise OSError, which the call lets through
LogGithubOperation ==
    /\ log_call.n < MaxCalls
    /\ \E operation \in Operations, details \in Details, ms \in MsValues,
          io_ok \in BOOLEAN :
          LET entry == github_operation_entry(operation, details)
              se    == stamp_entry(UID, entry, ms, ms)
              log_file == ChainFile(today)
          IN  IF io_ok
              THEN /\ files' = [files EXCEPT ![log_file] =
                                  open_a_write(@, json_dumps(se, FALSE) \o <<"\n">>)]
                   /\ stamped_entry' = se
                   /\ log_call' = [n |-> log_call.n + 1, op |-> "log_github_operation",
                                   outcome |-> "written"]
              ELSE /\ UNCHANGED <<files, stamped_entry>>
                   /\ log_call' = [n |-> log_call.n + 1, op |-> "log_github_operation",
                                   outcome |-> "raised"]
    /\ UNCHANGED <<today, logs, stamp_in, rt_vars, hub_vars, pol_vars, qs_vars, ag_vars, sim_vars, rc_vars, hb_vars, eng_vars, ws_vars, core_vars, pf_vars>>

\* logger.log_agent_task(task_type, result)
LogAgentTask ==
    /\ log_call.n < MaxCalls
    /\ \E task_type \in TaskTypes, result \in Results, ms \in MsValues,
          io_ok \in BOOLEAN :
          LET entry == agent_task_entry(task_type, result)
              se    == stamp_entry(UID, entry, ms, ms)
              log_file == ChainFile(today)
          IN  IF io_ok
              THEN /\ files' = [files EXCEPT ![log_file] =
                                  open_a_write(@, json_dumps(se, FALSE) \o <<"\n">>)]
                   /\ stamped_entry' = se
                   /\ log_call' = [n |-> log_call.n + 1, op |-> "log_agent_task",
                                   outcome |-> "written"]
              ELSE /\ UNCHANGED <<files, stamped_entry>>
                   /\ log_call' = [n |-> log_call.n + 1, op |-> "log_agent_task",
                                   outcome |-> "raised"]
    /\ UNCHANGED <<today, logs, stamp_in, rt_vars, hub_vars, pol_vars, qs_vars, ag_vars, sim_vars, rc_vars, hb_vars, eng_vars, ws_vars, core_vars, pf_vars>>

\* violet-af logger.log(log_type, message, context, quantum_influenced):
\* the ReflectLog joins self.logs, then _write_log appends it to the file
\* or, when open() or write() raises, prints the error and returns
Log ==
    /\ log_call.n < MaxCalls
    /\ \E message \in Messages, context \in Contexts, quantum_influenced \in {FALSE},
          timestamp \in TsValues, io_ok \in BOOLEAN :
          LET rl == reflect_log("github_action", message, context,
                                quantum_influenced, timestamp)
          IN  /\ logs' = Append(logs, rl)
              /\ files' = IF io_ok
                          THEN [files EXCEPT ![VioletLogFile] =
                                  open_a_write(@, json_dumps(rl, FALSE) \o <<"\n">>)]
                          ELSE files
              /\ log_call' = [n |-> log_call.n + 1, op |-> "log",
                              outcome |-> IF io_ok THEN "written" ELSE "write_failed"]
    /\ UNCHANGED <<today, stamp_in, stamped_entry,
                   rt_vars, hub_vars, pol_vars, qs_vars, ag_vars, sim_vars, rc_vars, hb_vars, eng_vars, ws_vars, core_vars, pf_vars>>

\* midnight passes: time.strftime('%Y%m%d') gives the next day
NextDay ==
    /\ today = Days[1]
    /\ today' = Days[2]
    /\ UNCHANGED <<files, logs, stamp_in, stamped_entry, log_call,
                   rt_vars, hub_vars, pol_vars, qs_vars, ag_vars, sim_vars, rc_vars, hb_vars, eng_vars, ws_vars, core_vars, pf_vars>>

StampNext == StampEntry
LogNext == LogGithubOperation \/ LogAgentTask \/ Log \/ NextDay

\* r carries the logger's uid, a timestamp, a nonce, and a signature that
\* is the HMAC of the sorted compact JSON of its other fields
IsStamped(r) ==
    /\ Get(r, "uid", Null) = UID
    /\ HasKey(r, "timestamp")
    /\ HasKey(r, "nonce")
    /\ Get(r, "signature", Null) = hmac_new(KEY, dumps(DelKey(r, "signature"), TRUE))

\* C7: every record stamp_entry returns has the logger's uid, a timestamp, a
\* nonce and a signature that is the HMAC over its other fields, whatever
\* keys the entry passed in carries.
C7_StampedRecord ==
    stamped_entry # Null => IsStamped(stamped_entry)

\* what does hold: the records log_github_operation and log_agent_task
\* return and write are stamped
LoggedRecordsStamped ==
    (log_call.op \in {"log_github_operation", "log_agent_task"}
       /\ log_call.outcome = "written")
        => IsStamped(stamped_entry)
LoggedRecordsWitness ==
    /\ log_call.op = "log_github_operation"
    /\ log_call.outcome = "written"
    /\ Get(Get(stamped_entry, "details", Null), "uid", Null) = Str("intruder")

IsPrefix(s, t) == Len(s) <= Len(t) /\ SubSeq(t, 1, Len(s)) = s
\* the file a call writes to
LogFileOf(op, day) == IF op = "log" THEN VioletLogFile ELSE ChainFile(day)
IsLogCall(op) == op \in {"log_github_operation", "log_agent_task", "log"}
OneLineAdded(f) ==
    /\ Len(files'[f]) = Len(files[f]) + 1
    /\ IsPrefix(files[f], files'[f])
    /\ \A g \in LogFiles \ {f} : files'[g] = files[g]

\* C8 as stated: every logging call that returns has added one line at the
\* end of its log file and left every earlier line in place.
C8_Original ==
    [][(log_call'.n # log_call.n /\ IsLogCall(log_call'.op)
          /\ log_call'.outcome # "raised")
         => OneLineAdded(LogFileOf(log_call'.op, today))]_vars

\* C8 amended: no step changes, reorders or removes a line of a log file, so
\* the content before is a prefix of the content after; a logging call whose
\* write succeeds adds exactly one line at the end of its log file, and one
\* whose write fails (log_github_operation and log_agent_task then raise,
\* violet-af's log prints the error and returns) adds nothing.
C8_AppendOnly ==
    [][/\ \A f \in LogFiles : IsPrefix(files[f], files'[f])
       /\ (log_call'.n # log_call.n /\ IsLogCall(log_call'.op)) =>
             IF log_call'.outcome = "written"
             THEN OneLineAdded(LogFileOf(log_call'.op, today))
             ELSE files' = files]_vars
\* both loggers have written, one file holds two lines, and a write failed
C8_Witness ==
    /\ Len(files[ChainFile(Days[1])]) = 2
    /\ files[ChainFile(Days[1])][1] # files[ChainFile(Days[1])][2]
    /\ log_call.op = "log"
    /\ log_call.outcome = "write_failed"
    /\ Len(logs) = 1

(***************************************************************************)
(* One BaseAgent (axiom-dev-core/core.py): emit_event appends to           *)
(* event_queue, each running _event_loop coroutine pops the head and       *)
(* passes it to process_event.  emitted and processed record the events in *)
(* the order emit_event appended them and process_event was invoked.       *)
(***************************************************************************)
MaxEvents == 3
MaxLoops == 2

CREATOR == "Andrew Lee Cruz"
EventTypes == {"validate_transaction", "propose_block"}
\* the reading of int(time.time() * 1000): the events of one millisecond,
\* whose ids differ by the event type only
EventMs == {"1000"}

\* AgentEvent(event_id, event_type, data, timestamp)
AgentEvent(event_type, data, ms) ==
    [event_id |-> <<event_type, "_", ms>>, event_type |-> event_type,
     data |-> data, timestamp |-> "isoformat", creator |-> CREATOR]

\* list.pop(): the last item is taken whatever i is
pop_last(list, i) ==
    [item |-> list[Len(list)], rest |-> SubSeq(list, 1, Len(list) - 1)]
\* list.pop(i): the item taken and the list left
pop(list, i) ==
    [item |-> list[i + 1],
     rest |-> [j \in 1..(Len(list) - 1) |-> IF j <= i THEN list[j] ELSE list[j + 1]]]

\* _event_loop with the await of process_event outside any try
after_process_event_unguarded(outcome) ==
    IF outcome = "raised" THEN "off" ELSE "sleep"
\* _event_loop after its await of process_event: the loop goes on to its
\* sleep, through the except branch (which logs the error) when
\* process_event raised an Exception
after_process_event(outcome) ==
    IF outcome = "raised" THEN "sleep_logged_error" ELSE "sleep"

\* BaseAgent.__init__; no start() has been called
AgInit ==
    /\ is_active = FALSE
    /\ event_queue = <<>>
    /\ loops = [l \in 1..MaxLoops |-> "off"]
    /\ emitted = <<>>
    /\ processed = <<>>

\* agent.start(): is_active is set, initialize() runs, and unless it raises
\* a new _event_loop begins
Start ==
    /\ \E l \in 1..MaxLoops, initialized \in BOOLEAN :
          /\ loops[l] = "off"
          /\ \A k \in 1..(l - 1) : loops[k] # "off"
          /\ loops' = IF initialized THEN [loops EXCEPT ![l] = "while"] ELSE loops
    /\ is_active' = TRUE
    /\ UNCHANGED <<event_queue, emitted, processed,
                   rt_vars, hub_vars, pol_vars, qs_vars, log_vars, sim_vars, rc_vars, hb_vars, eng_vars, ws_vars, core_vars, pf_vars>>

\* agent.stop()
Stop ==
    /\ is_active' = FALSE
    /\ UNCHANGED <<event_queue, loops, emitted, processed,
                   rt_vars, hub_vars, pol_vars, qs_vars, log_vars, sim_vars, rc_vars, hb_vars, eng_vars, ws_vars, core_vars, pf_vars>>

\* agent.emit_event(event_type, data)
EmitEvent ==
    /\ Len(emitted) < MaxEvents
    /\ \E event_type \in EventTypes, ms \in EventMs :
          LET event == AgentEvent(event_type, Obj(<<>>), ms)
          IN  /\ event_queue' = Append(event_queue, event)
              /\ emitted' = Append(emitted, event)
    /\ UNCHANGED <<is_active, loops, processed,
                   rt_vars, hub_vars, pol_vars, qs_vars, log_vars, sim_vars, rc_vars, hb_vars, eng_vars, ws_vars, core_vars, pf_vars>>

\* _event_loop from the while test to its next await: the loop ends when
\* is_active is false; else, if the queue is not empty, the head is popped
\* and process_event is invoked on it; else the loop goes to sleep
EventLoopStep ==
    \E l \in 1..MaxLoops :
        /\ loops[l] = "while"
        /\ IF ~is_active
           THEN /\ loops' = [loops EXCEPT ![l] = "off"]
                /\ UNCHANGED <<event_queue, processed>>
           ELSE IF event_queue # <<>>
           THEN LET p == pop(event_queue, 0)
                IN  /\ event_queue' = p.rest
                    /\ processed' = Append(processed, p.item)
                    /\ loops' = [loops EXCEPT ![l] = "process_event"]
           ELSE /\ loops' = [loops EXCEPT ![l] = "sleep"]
                /\ UNCHANGED <<event_queue, processed>>
        /\ UNCHANGED <<is_active, emitted,
                       rt_vars, hub_vars, pol_vars, qs_vars, log_vars, sim_vars, rc_vars, hb_vars, eng_vars, ws_vars, core_vars, pf_vars>>

\* process_event returns, or raises an Exception that the loop logs
ProcessEventDone ==
    /\ \E l \in 1..MaxLoops, outcome \in {"returned", "raised"} :
          /\ loops[l] = "process_event"
          /\ loops' = [loops EXCEPT ![l] = after_process_event(outcome)]
    /\ UNCHANGED <<is_active, event_queue, emitted, processed,
                   rt_vars, hub_vars, pol_vars, qs_vars, log_vars, sim_vars, rc_vars, hb_vars, eng_vars, ws_vars, core_vars, pf_vars>>

\* asyncio.sleep(0.1) is over
SleepDone ==
    /\ \E l \in 1..MaxLoops :
          /\ loops[l] \in {"sleep", "sleep_logged_error"}
          /\ loops' = [loops EXCEPT ![l] = "while"]
    /\ UNCHANGED <<is_active, event_queue, emitted, processed,
                   rt_vars, hub_vars, pol_vars, qs_vars, log_vars, sim_vars, rc_vars, hb_vars, eng_vars, ws_vars, core_vars, pf_vars>>

AgNext == Start \/ Stop \/ EmitEvent \/ EventLoopStep \/ ProcessEventDone \/ SleepDone

\* C9: process_event is invoked on the events in the order emit_event
\* appended them, each at most once: the events processed so far, followed
\* by those still queued, are the events emitted, in order.
C9_ProcessedInAppendOrder ==
    /\ IsPrefix(processed, emitted)
    /\ processed \o event_queue = emitted
\* two loops are running, two different events have been processed and a
\* third is queued
C9_Witness ==
    /\ Len(processed) = 2
    /\ processed[1] # processed[2]
    /\ event_queue # <<>>
    /\ \A l \in 1..MaxLoops : loops[l] # "off"

\* the event loop runs every task that is ready; process_event and the
\* sleep of 0.1 s end
AgFairness ==
    WF_vars(EventLoopStep) /\ WF_vars(ProcessEventDone) /\ WF_vars(SleepDone)

\* the await of process_event in loop l ends otherwise than by returning
ProcessEventRaised(l) ==
    loops[l] = "process_event" /\ loops'[l] # loops[l] /\ loops'[l] # "sleep"

\* a loop has just caught an exception of process_event
ErrorLogged == \E l \in 1..MaxLoops : loops[l] = "sleep_logged_error"

\* C23: an exception raised by process_event for one event does not stop the
\* event loop: the loop goes on to its sleep, the failing event is dropped
\* (it is not put back in the queue, and no event is passed to
\* process_event twice), and every event queued after it is still passed to
\* process_event (the queue is emptied) unless the agent is stopped.
C23_LoopSurvivesException ==
    /\ [][\A l \in 1..MaxLoops :
            ProcessEventRaised(l) =>
               /\ loops'[l] = "sleep_logged_error"
               /\ event_queue' = event_queue
               /\ processed' = processed
               /\ is_active' = is_active]_vars
    /\ [](processed \o event_queue = emitted)
    /\ (ErrorLogged /\ event_queue # <<>>) ~> (event_queue = <<>> \/ ~is_active)

\* a loop has caught the exception of the first event while a second event
\* waits in the queue of the active agent
C23_Witness ==
    /\ ErrorLogged
    /\ is_active
    /\ Len(processed) = 1
    /\ event_queue # <<>>

(***************************************************************************)
(* The PoAI simulator (poai-sim/server.py): the devices dict, the          *)
(* submissions list, PUT /api/devices/{id}, POST /api/poai/submit and the  *)
(* background task simulate_device_behavior.  A temperature is kept in     *)
(* tenths of a degree.  The fields name, attestation_valid and location of *)
(* a device are never read or written after startup and are left out.      *)
(***************************************************************************)
MaxRequests == 2
MaxTicks == 1

\* int(time.time()) when startup_event runs
StartTime == 1000

SimulatedDevice(is_online, battery_level, is_charging, cpu_temperature, screen_on,
                last_poai_submission, total_submissions, energy_compliant) ==
    [is_online |-> is_online, battery_level |-> battery_level,
     is_charging |-> is_charging, cpu_temperature |-> cpu_temperature,
     screen_on |-> screen_on, last_poai_submission |-> last_poai_submission,
     total_submissions |-> total_submissions, energy_compliant |-> energy_compliant]

\* the keys of devices in insertion order
DeviceOrder ==
    << "SIM_GALAXY_S24_001", "SIM_IPHONE_15_002", "SIM_PIXEL_8_003",
       "SIM_ONEPLUS_11_004" >>
DeviceIds == Range(DeviceOrder)

\* devices after initialize_mock_devices()
initialize_mock_devices ==
    [id \in DeviceIds |->
        CASE id = "SIM_GALAXY_S24_001" ->
               SimulatedDevice(TRUE, 87, TRUE, 365, FALSE, StartTime - 120, 156, TRUE)
          [] id = "SIM_IPHONE_15_002" ->
               SimulatedDevice(TRUE, 73, FALSE, 412, FALSE, StartTime - 300, 98, TRUE)
          [] id = "SIM_PIXEL_8_003" ->
               SimulatedDevice(FALSE, 42, FALSE, 380, TRUE, StartTime - 1800, 67, FALSE)
          [] id = "SIM_ONEPLUS_11_004" ->
               SimulatedDevice(TRUE, 91, TRUE, 348, FALSE, StartTime - 90, 203, TRUE)]

Min(a, b) == IF a < b THEN a ELSE b
Max(a, b) == IF a > b THEN a ELSE b

check_energy_policy(device) ==
    LET battery_ok == device.is_charging \/ device.battery_level > 70
        temp_ok    == device.cpu_temperature < 450
        screen_ok  == ~device.screen_on
    IN  battery_ok /\ temp_ok /\ screen_ok /\ device.is_online

\* simulate_poai_computation(device_id, input_data) with the dict devs, the
\* clock reading t1 for the digest and t2 for the timestamp
simulate_poai_computation(devs, device_id, input_data, t1, t2) ==
    LET digest == <<"sha256", input_data, "|", device_id, "|", UID.tok, "|", t1>>
    IN  [device_id |-> device_id, digest |-> digest,
         signature |-> <<"sha256", "signature_", digest, "_", device_id>>,
         timestamp |-> t2,
         energy_compliant |-> IF device_id \in DOMAIN devs
                              THEN check_energy_policy(devs[device_id]) ELSE FALSE,
         attestation_token |-> "sim_attestation_token_hex"]

\* an Optional field of a DeviceUpdate: a value, or None
Some(v) == [is_none |-> FALSE, v |-> v]
NoInt  == [is_none |-> TRUE, v |-> 0]
NoBool == [is_none |-> TRUE, v |-> FALSE]
DeviceUpdate(battery_level, is_charging, cpu_temperature, screen_on) ==
    [battery_level |-> battery_level, is_charging |-> is_charging,
     cpu_temperature |-> cpu_temperature, screen_on |-> screen_on]
DeviceUpdates ==
    { DeviceUpdate(NoInt, NoBool, NoInt, NoBool),
      DeviceUpdate(Some(70), Some(FALSE), NoInt, NoBool),
      DeviceUpdate(Some(150), NoBool, Some(449), Some(FALSE)),
      DeviceUpdate(NoInt, Some(TRUE), Some(450), NoBool),
      DeviceUpdate(Some(0 - 5), NoBool, Some(900), Some(TRUE)) }
\* the device ids of the requests
RequestIds == {"SIM_IPHONE_15_002", "SIM_PIXEL_8_003", "SIM_UNKNOWN"}

\* update_device without the last assignment
apply_update_stale(device, update) ==
    [device EXCEPT
       !.battery_level = IF ~update.battery_level.is_none
                         THEN Max(0, Min(100, update.battery_level.v)) ELSE @,
       !.is_charging = IF ~update.is_charging.is_none THEN update.is_charging.v ELSE @,
       !.cpu_temperature = IF ~update.cpu_temperature.is_none
                           THEN Max(200, Min(800, update.cpu_temperature.v)) ELSE @,
       !.screen_on = IF ~update.screen_on.is_none THEN update.screen_on.v ELSE @]
\* the assignments of update_device to the device
apply_update(device, update) ==
    LET d1 == IF ~update.battery_level.is_none
              THEN [device EXCEPT !.battery_level = Max(0, Min(100, update.battery_level.v))]
              ELSE device
        d2 == IF ~update.is_charging.is_none
              THEN [d1 EXCEPT !.is_charging = update.is_charging.v] ELSE d1
        d3 == IF ~update.cpu_temperature.is_none
              THEN [d2 EXCEPT !.cpu_temperature = Max(200, Min(800, update.cpu_temperature.v))]
              ELSE d2
        d4 == IF ~update.screen_on.is_none
              THEN [d3 EXCEPT !.screen_on = update.screen_on.v] ELSE d3
    IN  [d4 EXCEPT !.energy_compliant = check_energy_policy(d4)]

\* the submission is recorded without counting it
record_uncounted(device, submission) ==
    [device EXCEPT !.last_poai_submission = submission.timestamp]
\* submit_poai: device.last_poai_submission = ...; device.total_submissions += 1
record_submission(device, submission) ==
    [device EXCEPT !.last_poai_submission = submission.timestamp,
                   !.total_submissions = @ + 1]

\* secrets.randbelow(20)
RandBelow20 == {0, 19}

\* the body of simulate_device_behavior's for loop on one device, r the
\* random number drawn
simulate_device(device, r) ==
    LET d1 == IF device.is_online
              THEN [device EXCEPT
                      !.battery_level = IF device.is_charging
                                        THEN Min(100, device.battery_level + 1)
                                        ELSE Max(0, device.battery_level - 1),
                      !.cpu_temperature =
                          Max(250, Min(600, device.cpu_temperature + (r - 10)))]
              ELSE device
    IN  [d1 EXCEPT !.energy_compliant = check_energy_policy(d1)]

\* the for loop from the device at position i up to its next await: the
\* broadcast after a device whose compliance changed; rs gives the random
\* number drawn for each device.  i = 0 when the loop is over.
RECURSIVE simulate_from(_, _, _)
simulate_from(devs, i, rs) ==
    IF i > Len(DeviceOrder) THEN [devices |-> devs, i |-> 0]
    ELSE LET id  == DeviceOrder[i]
             new == simulate_device(devs[id], rs[id])
             ds  == [devs EXCEPT ![id] = new]
         IN  IF new.energy_compliant # devs[id].energy_compliant
             THEN [devices |-> ds, i |-> IF i = Len(DeviceOrder) THEN 0 ELSE i + 1]
             ELSE simulate_from(ds, i + 1, rs)

\* the answer of a request handler: its status, the globals after it, and
\* the type of the message it passed to broadcast_update
Answer(status, devs, subs, broadcast) ==
    [status |-> status, devices |-> devs, submissions |-> subs,
     broadcast |-> broadcast]

\* what the accepting branch of submit_poai does
Accepted(devs, subs, device_id, t) ==
    LET submission == simulate_poai_computation(devs, device_id, "input", t, t)
    IN  Answer(200,
               [devs EXCEPT ![device_id] = record_submission(devs[device_id], submission)],
               Append(subs, submission), "poai_submission")

\* submit_poai that checks the energy policy after the computation
submit_poai_check_last(devs, subs, device_id, force_computation, t) ==
    IF device_id \notin DOMAIN devs THEN Answer(404, devs, subs, "none")
    ELSE LET r == Accepted(devs, subs, device_id, t)
         IN  IF ~force_computation /\ ~check_energy_policy(devs[device_id])
             THEN [r EXCEPT !.status = 400]
             ELSE r

\* POST /api/poai/submit at time t
submit_poai(devs, subs, device_id, force_computation, t) ==
    IF device_id \notin DOMAIN devs THEN Answer(404, devs, subs, "none")
    ELSE IF ~force_computation /\ ~check_energy_policy(devs[device_id])
    THEN Answer(400, devs, subs, "none")
    ELSE Accepted(devs, subs, device_id, t)

NoSimCall ==
    [n |-> 0, op |-> "none", status |-> 0, device_id |-> "", force |-> FALSE,
     broadcast |-> "none"]
\* startup_event: the mock devices, no submission, the background task
\* asleep
SimInit ==
    /\ devices = initialize_mock_devices
    /\ submissions = <<>>
    /\ sim_now = StartTime
    /\ sim_call = NoSimCall
    /\ sim_task = [i |-> 0, ticks |-> 0]

\* PUT /api/devices/{device_id}
UpdateDevice ==
    /\ sim_call.n < MaxRequests
    /\ \E device_id \in RequestIds, update \in DeviceUpdates :
          IF device_id \notin DOMAIN devices
          THEN /\ sim_call' = [n |-> sim_call.n + 1, op |-> "update_device",
                               status |-> 404, device_id |-> device_id, force |-> FALSE,
                               broadcast |-> "none"]
               /\ UNCHANGED devices
          ELSE /\ devices' = [devices EXCEPT
                                ![device_id] = apply_update(devices[device_id], update)]
               /\ sim_call' = [n |-> sim_call.n + 1, op |-> "update_device",
                               status |-> 200, device_id |-> device_id, force |-> FALSE,
                               broadcast |-> "device_update"]
    /\ UNCHANGED <<submissions, sim_now, sim_task,
                   rt_vars, hub_vars, pol_vars, qs_vars, log_vars, ag_vars, rc_vars, hb_vars, eng_vars, ws_vars, core_vars, pf_vars>>

\* POST /api/poai/submit
SubmitPoai ==
    /\ sim_call.n < MaxRequests
    /\ \E device_id \in RequestIds, force_computation \in BOOLEAN, dt \in {0, 1} :
          LET t == sim_now + dt
              r == submit_poai(devices, submissions, device_id, force_computation, t)
          IN  /\ sim_now' = t
              /\ devices' = r.devices
              /\ submissions' = r.submissions
              /\ sim_call' = [n |-> sim_call.n + 1, op |-> "submit_poai",
                              status |-> r.status, device_id |-> device_id,
                              force |-> force_computation, broadcast |-> r.broadcast]
    /\ UNCHANGED <<sim_task, rt_vars, hub_vars, pol_vars, qs_vars, log_vars, ag_vars, rc_vars, hb_vars, eng_vars, ws_vars, core_vars, pf_vars>>

\* simulate_device_behavior: asyncio.sleep(30) is over and the for loop runs
\* up to its first await, or the loop goes on after a broadcast
SimulateDeviceBehavior ==
    /\ \/ sim_task.i > 0
       \/ sim_task.i = 0 /\ sim_task.ticks < MaxTicks
    /\ \E rs \in [DeviceIds -> RandBelow20] :
          LET first == sim_task.i = 0
              r     == simulate_from(devices, IF first THEN 1 ELSE sim_task.i, rs)
          IN  /\ devices' = r.devices
              /\ sim_task' = [i |-> r.i,
                              ticks |-> IF first THEN sim_task.ticks + 1
                                        ELSE sim_task.ticks]
              /\ sim_now' = IF first THEN sim_now + 30 ELSE sim_now
    /\ UNCHANGED <<submissions, sim_call,
                   rt_vars, hub_vars, pol_vars, qs_vars, log_vars, ag_vars, rc_vars, hb_vars, eng_vars, ws_vars, core_vars, pf_vars>>

SimNext == UpdateDevice \/ SubmitPoai \/ SimulateDeviceBehavior

\* the step is a POST /api/poai/submit that is accepted
SubmitAccepted ==
    /\ sim_call'.n # sim_call.n
    /\ sim_call'.op = "submit_poai"
    /\ sim_call'.status = 200
\* charging or battery above 70%, screen off, CPU below 45 degrees
EnergyPolicy(d) ==
    /\ d.is_charging \/ d.battery_level > 70
    /\ ~d.screen_on
    /\ d.cpu_temperature < 450

\* C11: every submission that POST /api/poai/submit accepts comes from a
\* device that, at that moment, is charging or above 70% battery, has its
\* screen off and its CPU below 45 degrees, whatever the request.
C11_EnergyPolicyAtSubmission ==
    [][SubmitAccepted => EnergyPolicy(devices[sim_call'.device_id])]_vars

\* what does hold: a request without force_computation is accepted only
\* from a device that meets the policy (and is online)
UnforcedSubmissionsCompliant ==
    [][(SubmitAccepted /\ ~sim_call'.force)
          => (EnergyPolicy(devices[sim_call'.device_id])
                /\ devices[sim_call'.device_id].is_online
                /\ submissions'[Len(submissions')].energy_compliant)]_vars

\* the step is a POST /api/poai/submit answered 404 or 400
SubmitRejected ==
    /\ sim_call'.n # sim_call.n
    /\ sim_call'.op = "submit_poai"
    /\ sim_call'.status \in {404, 400}

\* C21: a rejected submit_poai (unknown device_id: 404; energy policy not
\* met and force_computation false: 400) leaves the submissions list and
\* every device's total_submissions and last_poai_submission unchanged, and
\* broadcasts nothing to the WebSocket clients.
C21_RejectedSubmitChangesNothing ==
    [][SubmitRejected =>
         /\ submissions' = submissions
         /\ \A id \in DeviceIds :
               /\ devices'[id].total_submissions = devices[id].total_submissions
               /\ devices'[id].last_poai_submission = devices[id].last_poai_submission
         /\ sim_call'.broadcast = "none"]_vars

\* a request refused for the energy policy, after one that was accepted
C21_Witness ==
    /\ sim_call.op = "submit_poai"
    /\ sim_call.status = 400
    /\ ~sim_call.force
    /\ submissions # <<>>

SubmissionsOf(id) ==
    Cardinality({i \in DOMAIN submissions : submissions[i].device_id = id})
Counters(devs) ==
    [id \in DeviceIds |-> <<devs[id].total_submissions, devs[id].last_poai_submission>>]

\* C20: each device's total_submissions is its initial value plus the
\* number of its entries in submissions; an accepted submit appends exactly
\* one submission, adds 1 to that device's total_submissions and sets its
\* last_poai_submission to the new submission's timestamp; no other step
\* changes submissions or these counters.
C20_SubmissionAccounting ==
    /\ [](\A id \in DeviceIds :
             devices[id].total_submissions
               = initialize_mock_devices[id].total_submissions + SubmissionsOf(id))
    /\ [][IF SubmitAccepted
          THEN LET id == sim_call'.device_id
               IN  /\ Len(submissions') = Len(submissions) + 1
                   /\ SubSeq(submissions', 1, Len(submissions)) = submissions
                   /\ submissions'[Len(submissions')].device_id = id
                   /\ devices'[id].total_submissions = devices[id].total_submissions + 1
                   /\ devices'[id].last_poai_submission
                        = submissions'[Len(submissions')].timestamp
                   /\ \A other \in DeviceIds \ {id} :
                         Counters(devices')[other] = Counters(devices)[other]
          ELSE /\ submissions' = submissions
               /\ Counters(devices') = Counters(devices)]_vars
\* a device that does not meet the policy has two forced submissions
C20_Witness ==
    /\ Len(submissions) = 2
    /\ devices["SIM_PIXEL_8_003"].total_submissions = 69
    /\ devices["SIM_PIXEL_8_003"].last_poai_submission = StartTime + 1

(***************************************************************************)
(* violet_af ReflectLogger: the hash-chained ReflectChain.  Digests are    *)
(* collision-free values that carry the text they were taken of.           *)
(***************************************************************************)
MaxEntries == 2

\* what datetime.datetime.utcnow().isoformat() can read, in time order
ClockReadings ==
    << "2025-01-01T00:00:00.000001", "2025-01-01T00:00:00.000002" >>
Clock == DOMAIN ClockReadings

\* a Python list of strings: its JSON text, and its length
List(text, len) == [text |-> text, len |-> len]
ListValue(l) == [t |-> "arr", tok |-> l.text, o |-> <<>>, m |-> <<>>]
ListInputs == {List("[]", 0), List("[\"hub\"]", 1)}

\* the characters of a hexdigest (or of the empty string)
HexText(h) ==
    IF h.t = "hex" THEN <<"digest(", h.tok>> \o h.m \o <<")">> ELSE <<h.tok>>

\* hashlib.sha512(f"{creator_uid}:{creator_email}:{data}:{utcnow}")
_generate_sovereignty_signature(data, now) ==
    [t |-> "hex", tok |-> "sha512", o |-> <<>>,
     m |-> <<UID.tok, ":", CREATOR_EMAIL, ":">> \o data \o <<":", ClockReadings[now]>>]

\* hashlib.sha256(f"{previous_hash}:{entry_data}:{creator_uid}")
_calculate_chain_hash(entry_data, previous_hash) ==
    sha256(HexText(previous_hash) \o <<":">> \o entry_data \o <<":", UID.tok>>)

\* "REFLECT-" and the first 16 digits of md5(f"{entry_type}:{timestamp}:{uid}")
_generate_entry_uid(entry_type, timestamp) ==
    [t |-> "hex", tok |-> "REFLECT-md5[:16]", o |-> <<>>,
     m |-> <<entry_type, ":", ClockReadings[timestamp], ":", UID.tok>>]

\* the arguments _add_entry is called with
EntryArgs(entry_type, data, metadata) ==
    [entry_type |-> entry_type, data |-> data, metadata |-> metadata]

log_quantum_execution(quantum_state, circuit_hash, measurement_results, task_mapping, entanglement_pattern, additional_metadata, now) ==
    EntryArgs("quantum_execution",
        Obj(<< Item("quantum_state", Str(quantum_state)),
               Item("circuit_hash", Str(circuit_hash)),
               Item("measurement_results", measurement_results),
               Item("task_mapping", task_mapping),
               Item("entanglement_pattern", Str(entanglement_pattern)),
               Item("execution_timestamp", Str(ClockReadings[now])) >>),
        Update(Obj(<< Item("entry_category", Str("quantum_execution")),
                      Item("automation_triggered",
                           Get(task_mapping, "autonomous", Bool(FALSE))),
                      Item("priority_level",
                           Get(task_mapping, "priority", Str("unknown"))) >>),
               IF additional_metadata = Null THEN Obj(<<>>) ELSE additional_metadata))

log_automation_operation(operation_type, target, parameters, result, quantum_trigger_uid, sovereignty_level, now) ==
    EntryArgs("automation_operation",
        Obj(<< Item("operation_type", Str(operation_type)),
               Item("target", Str(target)),
               Item("parameters", parameters),
               Item("result", result),
               Item("quantum_trigger_uid", quantum_trigger_uid),
               Item("sovereignty_level", Str(sovereignty_level)),
               Item("execution_timestamp", Str(ClockReadings[now])) >>),
        Obj(<< Item("entry_category", Str("automation_operation")),
               Item("operation_success",
                    Bool(Get(result, "status", Null) = Str("success"))),
               Item("quantum_initiated",
                    Bool(quantum_trigger_uid \notin {Null, Str("")})),
               Item("sovereignty_level", Str(sovereignty_level)) >>))

log_security_event(event_type, severity, description, affected_components, mitigation_actions, additional_data, now) ==
    EntryArgs("security_event",
        Update(Obj(<< Item("event_type", Str(event_type)),
                      Item("severity", Str(severity)),
                      Item("description", Str(description)),
                      Item("affected_components", ListValue(affected_components)),
                      Item("mitigation_actions", ListValue(mitigation_actions)),
                      Item("detection_timestamp", Str(ClockReadings[now])) >>),
               IF additional_data = Null THEN Obj(<<>>) ELSE additional_data),
        Obj(<< Item("entry_category", Str("security_event")),
               Item("severity_level", Str(severity)),
               Item("components_affected", Num(NumTok(affected_components.len))),
               Item("mitigation_applied", Bool(mitigation_actions.len > 0)) >>))

log_sovereignty_verification(verification_type, verification_result, verification_details, corrective_actions, now) ==
    EntryArgs("sovereignty_verification",
        Obj(<< Item("verification_type", Str(verification_type)),
               Item("verification_result", Bool(verification_result)),
               Item("verification_details", verification_details),
               Item("corrective_actions", ListValue(corrective_actions)),
               Item("verification_timestamp", Str(ClockReadings[now])) >>),
        Obj(<< Item("entry_category", Str("sovereignty_verification")),
               Item("verification_passed", Bool(verification_result)),
               Item("corrective_action_required", Bool(corrective_actions.len > 0)),
               Item("critical_sovereignty_check",
                    Bool(verification_type \in {"creator_uid", "control_integrity"})) >>))

ReflectEntry(uid, timestamp, creator_uid, entry_type, data, sovereignty_signature, chain_hash, metadata) ==
    [uid |-> uid, timestamp |-> timestamp, creator_uid |-> creator_uid,
     entry_type |-> entry_type, data |-> data,
     sovereignty_signature |-> sovereignty_signature,
     chain_hash |-> chain_hash, metadata |-> metadata]

\* _add_entry that takes every entry for the first of the chain
_add_entry_unlinked(chain, args, timestamp, signed_at) ==
    LET data_json == json_dumps(args.data, TRUE)
    IN  Append(chain,
               ReflectEntry(_generate_entry_uid(args.entry_type, timestamp),
                            ClockReadings[timestamp], UID, args.entry_type, args.data,
                            _generate_sovereignty_signature(data_json, signed_at),
                            _calculate_chain_hash(data_json, Str("")),
                            args.metadata))

\* ReflectLogger._add_entry: the chain after the entry is appended; the clock
\* reads timestamp for the entry and signed_at inside the signature
_add_entry(chain, args, timestamp, signed_at) ==
    LET data_json == json_dumps(args.data, TRUE)
        previous_hash == IF chain # <<>> THEN chain[Len(chain)].chain_hash ELSE Str("")
    IN  Append(chain,
               ReflectEntry(_generate_entry_uid(args.entry_type, timestamp),
                            ClockReadings[timestamp], UID, args.entry_type, args.data,
                            _generate_sovereignty_signature(data_json, signed_at),
                            _calculate_chain_hash(data_json, previous_hash),
                            args.metadata))

\* ReflectLogger.verify_chain_integrity
verify_chain_integrity(chain) ==
    IF chain = <<>> THEN TRUE
    ELSE IF \E i \in DOMAIN chain : chain[i].creator_uid # UID THEN FALSE
    ELSE \A i \in DOMAIN chain :
            chain[i].chain_hash =
               _calculate_chain_hash(json_dumps(chain[i].data, TRUE),
                                     IF i = 1 THEN Str("") ELSE chain[i - 1].chain_hash)

TaskMappings ==
    { Obj(<<>>),
      Obj(<<Item("priority", Str("high")), Item("autonomous", Bool(TRUE))>>) }
AdditionalData == {Null, Obj(<<Item("source_ip", Str("10.0.0.1"))>>)}
ForgedSignature == [t |-> "hex", tok |-> "sha512", o |-> <<>>, m |-> <<"forged">>]

ChainInit ==
    /\ reflect_chain = <<>>
    /\ utcnow = 1
    /\ chain_verified = "none"

\* a log_* call: the clock is read in the method, then in _add_entry, then
\* in _generate_sovereignty_signature
Logged(args, timestamp, signed_at) ==
    /\ reflect_chain' = _add_entry(reflect_chain, args, timestamp, signed_at)
    /\ utcnow' = signed_at
    /\ chain_verified' = "none"
    /\ UNCHANGED <<rt_vars, hub_vars, pol_vars, qs_vars, log_vars, ag_vars, sim_vars, hb_vars, eng_vars, ws_vars, core_vars, pf_vars>>

ClockReads ==
    {r \in Clock \X Clock \X Clock : utcnow <= r[1] /\ r[1] <= r[2] /\ r[2] <= r[3]}

LogQuantumExecution ==
    /\ Len(reflect_chain) < MaxEntries
    /\ \E r \in ClockReads, task_mapping \in TaskMappings :
          Logged(log_quantum_execution("101", "c1f0", Obj(<<Item("101", Num("1024"))>>),
                                       task_mapping, "bell", Null, r[1]),
                 r[2], r[3])

LogAutomationOperation ==
    /\ Len(reflect_chain) < MaxEntries
    /\ \E r \in ClockReads :
          Logged(log_automation_operation("repository_creation", "violet-af",
                                          Obj(<<Item("branch", Str("main"))>>),
                                          Obj(<<Item("status", Str("success"))>>),
                                          Null, "monitored", r[1]),
                 r[2], r[3])

LogSecurityEvent ==
    /\ Len(reflect_chain) < MaxEntries
    /\ \E r \in ClockReads, mitigation_actions \in ListInputs,
          additional_data \in AdditionalData :
          Logged(log_security_event("sovereignty_check", "low", "routine",
                                    List("[\"hub\"]", 1), mitigation_actions,
                                    additional_data, r[1]),
                 r[2], r[3])

LogSovereigntyVerification ==
    /\ Len(reflect_chain) < MaxEntries
    /\ \E r \in ClockReads :
          Logged(log_sovereignty_verification("creator_uid", TRUE,
                                              Obj(<<Item("uid_found", Bool(TRUE))>>),
                                              List("[]", 0), r[1]),
                 r[2], r[3])

\* the sovereignty_signature of one logged entry is overwritten, every other
\* field left as it was
AlterSignature ==
    /\ \E i \in DOMAIN reflect_chain :
          /\ reflect_chain[i].sovereignty_signature # ForgedSignature
          /\ reflect_chain' = [reflect_chain EXCEPT
                                 ![i].sovereignty_signature = ForgedSignature]
    /\ chain_verified' = "none"
    /\ UNCHANGED <<utcnow, rt_vars, hub_vars, pol_vars, qs_vars, log_vars, ag_vars, sim_vars, hb_vars, eng_vars, ws_vars, core_vars, pf_vars>>

VerifyChainIntegrity ==
    /\ chain_verified = "none"
    /\ chain_verified' = IF verify_chain_integrity(reflect_chain) THEN "True" ELSE "False"
    /\ UNCHANGED <<reflect_chain, utcnow, rt_vars, hub_vars, pol_vars, qs_vars, log_vars, ag_vars, sim_vars, hb_vars, eng_vars, ws_vars, core_vars, pf_vars>>

ChainNext ==
    \/ LogQuantumExecution
    \/ LogAutomationOperation
    \/ LogSecurityEvent
    \/ LogSovereigntyVerification
    \/ AlterSignature
    \/ VerifyChainIntegrity

\* the entry carries a signature _add_entry did not give it
SignatureAltered(e) ==
    e.sovereignty_signature \notin
       {_generate_sovereignty_signature(json_dumps(e.data, TRUE), now) : now \in Clock}

AnySignatureAltered ==
    \E i \in DOMAIN reflect_chain : SignatureAltered(reflect_chain[i])

\* every entry is the logger's, and every chain_hash is the hash of the
\* previous chain_hash, the entry's sorted-key JSON and the creator UID
ChainLinked ==
    \A i \in DOMAIN reflect_chain :
       /\ reflect_chain[i].creator_uid = UID
       /\ reflect_chain[i].chain_hash =
             sha256(HexText(IF i = 1 THEN Str("") ELSE reflect_chain[i - 1].chain_hash)
                    \o <<":">> \o json_dumps(reflect_chain[i].data, TRUE)
                    \o <<":", UID.tok>>)

\* C13: after any sequence of log_quantum_execution, log_automation_operation,
\* log_security_event and log_sovereignty_verification calls on a logger that
\* started with an empty chain, verify_chain_integrity returns True: every
\* entry's creator_uid is the logger's and every chain_hash is the hash of
\* (previous chain_hash, sorted-key JSON of the data, creator UID).
C13_ChainIntegrity ==
    /\ ~AnySignatureAltered => ChainLinked
    /\ (chain_verified # "none" /\ ~AnySignatureAltered) => chain_verified = "True"

C13_Witness ==
    /\ Len(reflect_chain) = MaxEntries
    /\ ~AnySignatureAltered
    /\ chain_verified = "True"
    /\ reflect_chain[1].entry_type # reflect_chain[2].entry_type

\* C14: when the sovereignty_signature of an entry of the chain was altered
\* after the entry was logged, verify_chain_integrity returns False.
C14_AlteredSignatureDetected ==
    (chain_verified # "none" /\ AnySignatureAltered) => chain_verified = "False"

(***************************************************************************)
(* The heartbeat daemons: daemon_heartbeat.py and device_agent.py, each a  *)
(* process of its own running  while True: push(battery()); sleep(30).     *)
(***************************************************************************)
Daemons == {"daemon_heartbeat", "device_agent"}

\* subprocess.check_output(["termux-battery-status"]) then json.loads: an
\* exception (command missing, non-zero exit, output that is not JSON) or
\* the parsed output
TermuxOutcome(raised, json) == [raised |-> raised, json |-> json]
TermuxOutcomes ==
    {TermuxOutcome(TRUE, Null)}
       \cup {TermuxOutcome(FALSE, b) : b \in BatteryReadings \ {Obj(<<>>)}}

battery(out) == IF out.raised THEN Obj(<<>>) ELSE out.json

\* requests.post(..., timeout=10): the status of the answer, or the
\* exception the call raises
PostResults == {"200", "403", "500", "ConnectionError", "Timeout"}

\* requests.post(...).raise_for_status()
post_raise_for_status(result) == IF result = "200" THEN "returned" ELSE "raised"

\* push without its try/except
daemon_heartbeat_push_unguarded(result) ==
    post_raise_for_status(result)

\* daemon_heartbeat.push: try: post ... except Exception: pass
daemon_heartbeat_push(result) ==
    IF post_raise_for_status(result) = "raised" THEN "returned" ELSE "returned"

\* device_agent.push: the POST is not guarded
device_agent_push(result) == post_raise_for_status(result)

\* one round of the loop up to the sleep: "returned" when control reaches
\* time.sleep(30), "raised" when an exception leaves the loop
heartbeat_round(d, result) ==
    IF d = "daemon_heartbeat"
    THEN daemon_heartbeat_push(result)
    ELSE IF device_agent_push(result) = "raised" THEN "returned" ELSE "returned"

HbInit ==
    /\ hb_pc = [d \in Daemons |-> "battery"]
    /\ hb_termux = [d \in Daemons |-> TermuxOutcome(FALSE, Null)]
    /\ hb_battery = [d \in Daemons |-> Null]
    /\ hb_post = [d \in Daemons |-> "none"]

\* battery() is evaluated for the argument of push
Battery(d) ==
    /\ hb_pc[d] = "battery"
    /\ \E out \in TermuxOutcomes :
          /\ hb_termux' = [hb_termux EXCEPT ![d] = out]
          /\ hb_battery' = [hb_battery EXCEPT ![d] = battery(out)]
    /\ hb_pc' = [hb_pc EXCEPT ![d] = "push"]
    /\ UNCHANGED <<hb_post, rt_vars, hub_vars, pol_vars, qs_vars, log_vars, ag_vars, sim_vars, rc_vars, eng_vars, ws_vars, core_vars, pf_vars>>

\* push("heartbeat", {"battery": ...}): the heartbeat is attempted
PushHeartbeat(d) ==
    /\ hb_pc[d] = "push"
    /\ \E result \in PostResults :
          /\ hb_post' = [hb_post EXCEPT ![d] = result]
          /\ hb_pc' = [hb_pc EXCEPT ![d] =
                         IF heartbeat_round(d, result) = "returned"
                         THEN "sleep" ELSE "terminated"]
    /\ UNCHANGED <<hb_termux, hb_battery, rt_vars, hub_vars, pol_vars, qs_vars, log_vars, ag_vars, sim_vars, rc_vars, eng_vars, ws_vars, core_vars, pf_vars>>

\* time.sleep(30) returns
Sleep(d) ==
    /\ hb_pc[d] = "sleep"
    /\ hb_pc' = [hb_pc EXCEPT ![d] = "battery"]
    /\ UNCHANGED <<hb_termux, hb_battery, hb_post, rt_vars, hub_vars, pol_vars, qs_vars, log_vars, ag_vars, sim_vars, rc_vars, eng_vars, ws_vars, core_vars, pf_vars>>

HbNext == \E d \in Daemons : Battery(d) \/ PushHeartbeat(d) \/ Sleep(d)

\* each daemon is a process of its own that the system keeps running, and
\* each of its blocking calls returns: the POST has timeout=10, the sleep
\* lasts 30 seconds
HbFairness ==
    \A d \in Daemons :
       WF_vars(Battery(d)) /\ WF_vars(PushHeartbeat(d)) /\ WF_vars(Sleep(d))

\* C15: a failed heartbeat never stops the daemon: battery() returns {} when
\* the battery read fails, the exception of a failed POST is swallowed, and
\* the loop always comes back to attempt the next heartbeat: every daemon
\* attempts heartbeats infinitely often whatever the earlier outcomes.
C15_HeartbeatNeverStops ==
    /\ [](\A d \in Daemons :
            /\ hb_pc[d] # "terminated"
            /\ hb_termux[d].raised => hb_battery[d] = Obj(<<>>))
    /\ \A d \in Daemons : []<>(hb_pc[d] = "push")

C15_Witness ==
    \A d \in Daemons :
       /\ hb_pc[d] = "push"
       /\ hb_termux[d].raised
       /\ hb_post[d] \in {"403", "500", "ConnectionError", "Timeout"}

(***************************************************************************)
(* BlockchainAutomationEngine: fork_registry and deployment_status.        *)
(***************************************************************************)
MaxEngineCalls == 3

Prefix(seq, n) == SubSeq(seq, 1, n)
KeySeq(d) == [i \in DOMAIN d.o |-> d.o[i].k]

\* generate_automated_forks: the loop registers the chains in the order of
\* SUPPORTED_BLOCKCHAINS; `created` of them are registered when the call
\* ends, all of them unless create_deployment_script raised (open or chmod
\* of /tmp/deploy_<chain>.sh) on the way
generate_automated_forks(self, created) ==
    [self EXCEPT !.fork_registry =
        Update(self.fork_registry,
               ForkRegistryOf(Prefix(SUPPORTED_BLOCKCHAINS, created),
                              self.quantum_result))]

\* execute_automated_deployments looping over SUPPORTED_BLOCKCHAINS
execute_automated_deployments_all_chains(self) ==
    [self EXCEPT !.deployment_status =
        Update(self.deployment_status, DeploymentStatusOf(SUPPORTED_BLOCKCHAINS))]

\* execute_automated_deployments: one deployment per entry of fork_registry
execute_automated_deployments(self) ==
    [self EXCEPT !.deployment_status =
        Update(self.deployment_status, DeploymentStatusOf(KeySeq(self.fork_registry)))]

\* generate_automation_report: the counts of its automation_summary
generate_automation_report(self) ==
    [total_blockchains |-> Len(SUPPORTED_BLOCKCHAINS),
     forks_created |-> Len(self.fork_registry.o),
     deployments_completed |-> Len(self.deployment_status.o)]

EngineCall(op, outcome) == [op |-> op, outcome |-> outcome]

\* no engine is in use
EngineIdle ==
    /\ engine = [quantum_result |-> Obj(<<>>), fork_registry |-> Obj(<<>>),
                 deployment_status |-> Obj(<<>>)]
    /\ engine_calls = <<>>

\* BlockchainAutomationEngine(quantum_result)
EngineInit ==
    /\ \E qr \in QuantumResults :
          engine = [quantum_result |-> qr, fork_registry |-> Obj(<<>>),
                    deployment_status |-> Obj(<<>>)]
    /\ engine_calls = <<>>

GenerateAutomatedForks ==
    /\ Len(engine_calls) < MaxEngineCalls
    /\ \E created \in 0..Len(SUPPORTED_BLOCKCHAINS) :
          /\ engine' = generate_automated_forks(engine, created)
          /\ engine_calls' =
                Append(engine_calls,
                       EngineCall("generate_automated_forks",
                                  IF created = Len(SUPPORTED_BLOCKCHAINS)
                                  THEN "returned" ELSE "OSError"))
    /\ UNCHANGED <<rt_vars, hub_vars, pol_vars, qs_vars, log_vars, ag_vars, sim_vars, rc_vars, hb_vars, ws_vars, core_vars, pf_vars>>

ExecuteAutomatedDeployments ==
    /\ Len(engine_calls) < MaxEngineCalls
    /\ engine' = execute_automated_deployments(engine)
    /\ engine_calls' =
          Append(engine_calls, EngineCall("execute_automated_deployments", "returned"))
    /\ UNCHANGED <<rt_vars, hub_vars, pol_vars, qs_vars, log_vars, ag_vars, sim_vars, rc_vars, hb_vars, ws_vars, core_vars, pf_vars>>

EngineNext == GenerateAutomatedForks \/ ExecuteAutomatedDeployments

\* one generate_automated_forks then one execute_automated_deployments,
\* both returned
ForksThenDeployments ==
    engine_calls = << EngineCall("generate_automated_forks", "returned"),
                      EngineCall("execute_automated_deployments", "returned") >>

\* C16: after any sequence of generate_automated_forks and
\* execute_automated_deployments calls every chain of deployment_status has
\* an entry in fork_registry and every chain of fork_registry is a supported
\* blockchain (deployments_completed <= forks_created <= total_blockchains);
\* after one generate_automated_forks followed by one
\* execute_automated_deployments the report's forks_created and
\* deployments_completed both equal total_blockchains.
C16_ForkDeploymentAccounting ==
    LET report == generate_automation_report(engine)
    IN  /\ Keys(engine.deployment_status) \subseteq Keys(engine.fork_registry)
        /\ Keys(engine.fork_registry) \subseteq Range(SUPPORTED_BLOCKCHAINS)
        /\ report.deployments_completed <= report.forks_created
        /\ report.forks_created <= report.total_blockchains
        /\ ForksThenDeployments =>
              /\ report.forks_created = report.total_blockchains
              /\ report.deployments_completed = report.total_blockchains

C16_Witness ==
    /\ ForksThenDeployments
    /\ generate_automation_report(engine).deployments_completed = 8

(***************************************************************************)
(* poai-sim: connected_clients, shared by the coroutines of the event      *)
(* loop.  A coroutine runs alone from one await to the next, so each       *)
(* action below is the code between two awaits.                            *)
(***************************************************************************)
Sockets == {"ws1", "ws2"}
\* the callers of broadcast_update that can be in progress together
Broadcasters == {"update_device", "submit_poai"}

NoSocket == "none"
\* a broadcast_update not running
Idle == [pc |-> "idle", client |-> NoSocket, next |-> 0, disconnected |-> <<>>]

\* connected_clients.remove(client): the list without the first occurrence
RemoveFirst(list, client) ==
    LET i == CHOOSE j \in DOMAIN list :
                list[j] = client /\ \A k \in 1..(j - 1) : list[k] # client
    IN  SubSeq(list, 1, i - 1) \o SubSeq(list, i + 1, Len(list))

\* connected_clients.remove(client) as one call: the list after it, whether
\* it raised ValueError, and the calls counted per client
remove(st, client) ==
    IF client \in Range(st.clients)
    THEN [clients |-> RemoveFirst(st.clients, client), raised |-> FALSE,
          calls |-> [st.calls EXCEPT ![client] = @ + 1]]
    ELSE [clients |-> st.clients, raised |-> TRUE,
          calls |-> [st.calls EXCEPT ![client] = @ + 1]]

\* for client in disconnected: connected_clients.remove(client), which a
\* ValueError leaves at once
RECURSIVE remove_disconnected(_, _)
remove_disconnected(st, disconnected) ==
    IF disconnected = <<>> \/ st.raised THEN st
    ELSE remove_disconnected(remove(st, disconnected[1]), Tail(disconnected))

WsInit ==
    /\ connected_clients = <<>>
    /\ ws_state = [w \in Sockets |-> "new"]
    /\ ws_endpoint = [w \in Sockets |-> "accept"]
    /\ broadcasts = [b \in Broadcasters |-> Idle]
    /\ remove_calls = [w \in Sockets |-> 0]
    /\ value_error = FALSE

WsOthers ==
    <<rt_vars, hub_vars, pol_vars, qs_vars, log_vars, ag_vars, sim_vars, rc_vars, hb_vars, eng_vars, core_vars, pf_vars>>

\* websocket_endpoint up to its first receive_text: accept, append, send
\* the initial data
Accept(w) ==
    /\ ws_state[w] = "new"
    /\ ws_state' = [ws_state EXCEPT ![w] = "open"]
    /\ ws_endpoint' = [ws_endpoint EXCEPT ![w] = "receive"]
    /\ connected_clients' = Append(connected_clients, w)
    /\ UNCHANGED <<broadcasts, remove_calls, value_error>>
    /\ UNCHANGED WsOthers

\* the peer closes the connection
ClientClose(w) ==
    /\ ws_state[w] = "open"
    /\ ws_state' = [ws_state EXCEPT ![w] = "closed"]
    /\ UNCHANGED <<connected_clients, ws_endpoint, broadcasts, remove_calls, value_error>>
    /\ UNCHANGED WsOthers

\* receive_text raises WebSocketDisconnect: the handler removes the socket
EndpointDisconnect(w) ==
    /\ ws_endpoint[w] = "receive"
    /\ ws_state[w] = "closed"
    /\ LET st == remove([clients |-> connected_clients, raised |-> FALSE,
                         calls |-> remove_calls], w)
       IN  /\ connected_clients' = st.clients
           /\ remove_calls' = st.calls
           /\ value_error' = (value_error \/ st.raised)
    /\ ws_endpoint' = [ws_endpoint EXCEPT ![w] = "ended"]
    /\ UNCHANGED <<ws_state, broadcasts>>
    /\ UNCHANGED WsOthers

\* broadcast_update is called: nothing to do on an empty list, else the
\* iteration takes the first client and suspends in its send_text
BroadcastStart(b) ==
    /\ broadcasts[b].pc = "idle"
    /\ broadcasts' = [broadcasts EXCEPT ![b] =
          IF connected_clients = <<>> THEN Idle
          ELSE [pc |-> "send", client |-> connected_clients[1], next |-> 2,
                disconnected |-> <<>>]]
    /\ UNCHANGED <<connected_clients, ws_state, ws_endpoint, remove_calls, value_error>>
    /\ UNCHANGED WsOthers

\* the send_text a broadcast waits in ends, sent or raised (a closed socket
\* can do either); the iteration takes the next client of the list as it is
\* now and suspends again, or the list is over and the disconnected clients
\* are removed
BroadcastResume(b) ==
    /\ broadcasts[b].pc = "send"
    /\ \E sent \in {TRUE} \cup {ws_state[broadcasts[b].client] # "closed"} :
          LET bc == broadcasts[b]
              disconnected == IF sent THEN bc.disconnected
                              ELSE Append(bc.disconnected, bc.client)
          IN  IF bc.next <= Len(connected_clients)
              THEN /\ broadcasts' = [broadcasts EXCEPT ![b] =
                         [pc |-> "send", client |-> connected_clients[bc.next],
                          next |-> bc.next + 1, disconnected |-> disconnected]]
                   /\ UNCHANGED <<connected_clients, remove_calls, value_error>>
              ELSE LET st == remove_disconnected(
                                [clients |-> connected_clients, raised |-> FALSE,
                                 calls |-> remove_calls], disconnected)
                   IN  /\ connected_clients' = st.clients
                       /\ remove_calls' = st.calls
                       /\ value_error' = (value_error \/ st.raised)
                       /\ broadcasts' = [broadcasts EXCEPT ![b] = Idle]
    /\ UNCHANGED <<ws_state, ws_endpoint>>
    /\ UNCHANGED WsOthers

WsNext ==
    \/ \E w \in Sockets : Accept(w) \/ ClientClose(w) \/ EndpointDisconnect(w)
    \/ \E b \in Broadcasters : BroadcastStart(b) \/ BroadcastResume(b)

\* C17: in every interleaving of broadcast_update with websocket_endpoint's
\* connect and disconnect handling each client is removed from
\* connected_clients at most once, and connected_clients.remove is never
\* called for a client that is not in the list (no ValueError).
C17_ClientsRemovedOnce ==
    /\ \A w \in Sockets : remove_calls[w] <= 1
    /\ ~value_error

(***************************************************************************)
(* AxiomDevCore.start() and stop().  The tasks of one asyncio event loop   *)
(* run one at a time, each from one await to the next: an action is the    *)
(* code a task runs between two suspensions.                               *)
(***************************************************************************)
MaxPending == 1

\* the agents AxiomDevCore.initialize adds
CoreAgents == {"tx_validator_1", "consensus_1"}

\* _event_loop from its while test to the next await: where the task
\* stands then, and what is left of the queue
event_loop(active, queued) ==
    IF ~active THEN [pc |-> "returned", queued |-> queued]
    ELSE IF queued > 0 THEN [pc |-> "process_event", queued |-> queued - 1]
    ELSE [pc |-> "sleep", queued |-> queued]

\* _event_bus_loop from its while test to the next await
_event_bus_loop(running) == IF running THEN "sleep" ELSE "returned"

CoreInit ==
    /\ is_running = FALSE
    /\ core_pc = "idle"
    /\ task_pc = [a \in CoreAgents |-> "none"]
    /\ agent_active = [a \in CoreAgents |-> FALSE]
    /\ agent_queue = [a \in CoreAgents |-> 0]
    /\ bus_pc = "none"
    /\ stop_completed = FALSE

CoreOthers ==
    <<rt_vars, hub_vars, pol_vars, qs_vars, log_vars, ag_vars, sim_vars, rc_vars, hb_vars, eng_vars, ws_vars, pf_vars>>

\* AxiomDevCore.start() up to its await of gather: the tasks are created,
\* none has run yet
CoreStart ==
    /\ core_pc = "idle"
    /\ is_running' = TRUE
    /\ task_pc' = [a \in CoreAgents |-> "created"]
    /\ bus_pc' = "created"
    /\ core_pc' = "gather"
    /\ UNCHANGED <<agent_active, agent_queue, stop_completed>>
    /\ UNCHANGED CoreOthers

\* agent.emit_event on an agent of the core
CoreEmitEvent(a) ==
    /\ agent_queue[a] < MaxPending
    /\ agent_queue' = [agent_queue EXCEPT ![a] = @ + 1]
    /\ UNCHANGED <<is_running, core_pc, task_pc, agent_active, bus_pc, stop_completed>>
    /\ UNCHANGED CoreOthers

\* the first step of the task of agent.start(): is_active = True,
\* initialize() (which has no await of its own) returns or raises, then
\* _event_loop runs to its first await
AgentTaskStart(a) ==
    /\ task_pc[a] = "created"
    /\ agent_active' = [agent_active EXCEPT ![a] = TRUE]
    /\ \E initialized \in BOOLEAN :
          IF ~initialized
          THEN /\ task_pc' = [task_pc EXCEPT ![a] = "raised"]
               /\ UNCHANGED agent_queue
          ELSE LET l == event_loop(TRUE, agent_queue[a])
               IN  /\ task_pc' = [task_pc EXCEPT ![a] = l.pc]
                   /\ agent_queue' = [agent_queue EXCEPT ![a] = l.queued]
    /\ UNCHANGED <<is_running, core_pc, bus_pc, stop_completed>>
    /\ UNCHANGED CoreOthers

\* the task of an agent resumes: after process_event it sleeps, after the
\* sleep it tests is_active again
AgentTaskResume(a) ==
    /\ task_pc[a] \in {"process_event", "sleep"}
    /\ IF task_pc[a] = "process_event"
       THEN /\ task_pc' = [task_pc EXCEPT ![a] = "sleep"]
            /\ UNCHANGED agent_queue
       ELSE LET l == event_loop(agent_active[a], agent_queue[a])
            IN  /\ task_pc' = [task_pc EXCEPT ![a] = l.pc]
                /\ agent_queue' = [agent_queue EXCEPT ![a] = l.queued]
    /\ UNCHANGED <<is_running, core_pc, agent_active, bus_pc, stop_completed>>
    /\ UNCHANGED CoreOthers

\* the event-bus task starts, or resumes after its sleep
EventBusStep ==
    /\ bus_pc \in {"created", "sleep"}
    /\ bus_pc' = _event_bus_loop(is_running)
    /\ UNCHANGED <<is_running, core_pc, task_pc, agent_active, agent_queue, stop_completed>>
    /\ UNCHANGED CoreOthers

\* AxiomDevCore.stop(), called by another task once the tasks exist:
\* agent.stop() has no await of its own, so the whole of stop() is one step
CoreStop ==
    /\ core_pc = "gather"
    /\ ~stop_completed
    /\ is_running' = FALSE
    /\ agent_active' = [a \in CoreAgents |-> FALSE]
    /\ stop_completed' = TRUE
    /\ UNCHANGED <<core_pc, task_pc, agent_queue, bus_pc>>
    /\ UNCHANGED CoreOthers

AllTasksEnded ==
    /\ \A a \in CoreAgents : task_pc[a] \in {"returned", "raised"}
    /\ bus_pc = "returned"

\* gather is over: start() ends
GatherDone ==
    /\ core_pc = "gather"
    /\ AllTasksEnded
    /\ core_pc' = "returned"
    /\ UNCHANGED <<is_running, task_pc, agent_active, agent_queue, bus_pc, stop_completed>>
    /\ UNCHANGED CoreOthers

CoreNext ==
    \/ CoreStart
    \/ CoreStop
    \/ EventBusStep
    \/ GatherDone
    \/ \E a \in CoreAgents : CoreEmitEvent(a) \/ AgentTaskStart(a) \/ AgentTaskResume(a)

\* the event loop runs every task that is ready, and every sleep ends
CoreFairness ==
    /\ WF_vars(EventBusStep)
    /\ WF_vars(GatherDone)
    /\ \A a \in CoreAgents : WF_vars(AgentTaskStart(a)) /\ WF_vars(AgentTaskResume(a))

\* C18: once AxiomDevCore.stop() has completed, every agent's start()
\* coroutine and the event-bus loop eventually return and every agent's
\* is_active stays False, whatever the interleaving of stop() with the tasks
\* start() created.
C18_StopTerminatesAgents ==
    /\ [](stop_completed => \A a \in CoreAgents : ~agent_active[a])
    /\ [](stop_completed => <>AllTasksEnded)

(***************************************************************************)
(* violet_af ReflectLogger: the chain file.  Every logger here is built    *)
(* with the default creator UID and email; what varies is encryption_key,  *)
(* left out (the key is derived from UID and email) or given.              *)
(***************************************************************************)
MaxConstructions == 3

LoggerSlots == {1, 2}
\* Fernet keys: the one _derive_encryption_key computes, and one passed in
DerivedKey == "pbkdf2(" \o UID.tok \o ":" \o CREATOR_EMAIL \o ")"
EncryptionKeys == {DerivedKey, "given-key"}

\* the chain file: absent, or the export encrypted under a key
ChainFileOf(exists, key, creator_uid, chain) ==
    [exists |-> exists, key |-> key, creator_uid |-> creator_uid,
     reflect_chain |-> chain]
NoChainFile == ChainFileOf(FALSE, "", UID, <<>>)

\* a ReflectLogger object (alive once constructed)
LoggerOf(alive, key, chain) == [alive |-> alive, key |-> key, reflect_chain |-> chain]
NoLogger == LoggerOf(FALSE, "", <<>>)

\* _load_chain: the chain a logger with this key starts with.  No file, a
\* decrypt that fails (InvalidToken, caught) and a creator_uid mismatch all
\* leave the chain empty.
_load_chain(file, key) ==
    IF ~file.exists THEN <<>>
    ELSE IF file.key # key THEN <<>>
    ELSE IF file.creator_uid # UID THEN <<>>
    ELSE file.reflect_chain

\* _save_chain: open(chain_file, 'wb') and write the export of this logger's
\* chain, encrypted with its key
_save_chain(key, chain) == ChainFileOf(TRUE, key, UID, chain)

PersistInit ==
    /\ chain_file = NoChainFile
    /\ loggers = [l \in LoggerSlots |-> NoLogger]
    /\ constructions = 0

PersistOthers ==
    <<rt_vars, hub_vars, pol_vars, qs_vars, log_vars, ag_vars, sim_vars, hb_vars, eng_vars, ws_vars, core_vars>>

\* ReflectLogger(chain_file, encryption_key=...)
Construct(l) ==
    /\ constructions < MaxConstructions
    /\ \E key \in EncryptionKeys :
          loggers' = [loggers EXCEPT ![l] = LoggerOf(TRUE, key, _load_chain(chain_file, key))]
    /\ constructions' = constructions + 1
    /\ UNCHANGED <<chain_file, rc_vars>>
    /\ UNCHANGED PersistOthers

\* a log_* call on a logger: _add_entry appends to the logger's chain and
\* saves it
LogOn(l) ==
    /\ loggers[l].alive
    /\ Len(loggers[l].reflect_chain) < MaxEntries
    /\ \E r \in ClockReads :
          \E args \in { log_automation_operation("repository_creation", "violet-af",
                                                 Obj(<<Item("branch", Str("main"))>>),
                                                 Obj(<<Item("status", Str("success"))>>),
                                                 Null, "monitored", r[1]),
                        log_sovereignty_verification("creator_uid", TRUE,
                                                     Obj(<<Item("uid_found", Bool(TRUE))>>),
                                                     List("[]", 0), r[1]) } :
             LET chain == _add_entry(loggers[l].reflect_chain, args, r[2], r[3])
             IN  /\ loggers' = [loggers EXCEPT ![l].reflect_chain = chain]
                 /\ chain_file' = _save_chain(loggers[l].key, chain)
                 /\ utcnow' = r[3]
    /\ UNCHANGED <<constructions, reflect_chain, chain_verified>>
    /\ UNCHANGED PersistOthers

PersistNext == \E l \in LoggerSlots : Construct(l) \/ LogOn(l)

\* the entries the chain file holds
SavedEntries(file) == Range(file.reflect_chain)

\* C22: an entry that has been saved to the chain file is still in the file
\* after any later ReflectLogger construction on the file and any later
\* log_* call, whatever the key of the loggers constructed.
C22_SavedEntriesPersist ==
    [][SavedEntries(chain_file) \subseteq SavedEntries(chain_file')]_vars

(***************************************************************************)
(* Specifications.                                                         *)
(***************************************************************************)
\* each specification starts one part of the repository and leaves the
\* others idle
InitSign    == RtInit /\ HubInit /\ PolIdle /\ QsIdle /\ LogInit /\ AgInit /\ SimInit /\ ChainInit /\ HbInit /\ EngineIdle /\ WsInit /\ CoreInit /\ PersistInit
InitHub     == RtIdle /\ HubInit /\ PolIdle /\ QsIdle /\ LogInit /\ AgInit /\ SimInit /\ ChainInit /\ HbInit /\ EngineIdle /\ WsInit /\ CoreInit /\ PersistInit
InitPolicy  == RtIdle /\ HubInit /\ PolInit /\ QsIdle /\ LogInit /\ AgInit /\ SimInit /\ ChainInit /\ HbInit /\ EngineIdle /\ WsInit /\ CoreInit /\ PersistInit
InitQuantum == RtIdle /\ HubInit /\ PolIdle /\ QsInit /\ LogInit /\ AgInit /\ SimInit /\ ChainInit /\ HbInit /\ EngineIdle /\ WsInit /\ CoreInit /\ PersistInit
InitStamp   == RtIdle /\ HubInit /\ PolIdle /\ QsIdle /\ StampInit /\ AgInit /\ SimInit /\ ChainInit /\ HbInit /\ EngineIdle /\ WsInit /\ CoreInit /\ PersistInit
InitLog     == RtIdle /\ HubInit /\ PolIdle /\ QsIdle /\ LogInit /\ AgInit /\ SimInit /\ ChainInit /\ HbInit /\ EngineIdle /\ WsInit /\ CoreInit /\ PersistInit
InitSim     == RtIdle /\ HubInit /\ PolIdle /\ QsIdle /\ LogInit /\ AgInit /\ SimInit /\ ChainInit /\ HbInit /\ EngineIdle /\ WsInit /\ CoreInit /\ PersistInit
InitAgent   == RtIdle /\ HubInit /\ PolIdle /\ QsIdle /\ LogInit /\ AgInit /\ SimInit /\ ChainInit /\ HbInit /\ EngineIdle /\ WsInit /\ CoreInit /\ PersistInit
InitHeartbeat ==
    RtIdle /\ HubInit /\ PolIdle /\ QsIdle /\ LogInit /\ AgInit /\ SimInit /\ ChainInit /\ HbInit /\ EngineIdle /\ WsInit /\ CoreInit /\ PersistInit
InitEngine ==
    RtIdle /\ HubInit /\ PolIdle /\ QsIdle /\ LogInit /\ AgInit /\ SimInit /\ ChainInit /\ HbInit /\ EngineInit /\ WsInit /\ CoreInit /\ PersistInit
InitWs ==
    RtIdle /\ HubInit /\ PolIdle /\ QsIdle /\ LogInit /\ AgInit /\ SimInit /\ ChainInit /\ HbInit /\ EngineIdle /\ WsInit /\ CoreInit /\ PersistInit
InitCore ==
    RtIdle /\ HubInit /\ PolIdle /\ QsIdle /\ LogInit /\ AgInit /\ SimInit /\ ChainInit /\ HbInit /\ EngineIdle /\ WsInit /\ CoreInit /\ PersistInit
InitPersist ==
    RtIdle /\ HubInit /\ PolIdle /\ QsIdle /\ LogInit /\ AgInit /\ SimInit /\ ChainInit /\ HbInit /\ EngineIdle /\ WsInit /\ CoreInit /\ PersistInit
InitChain   == RtIdle /\ HubInit /\ PolIdle /\ QsIdle /\ LogInit /\ AgInit /\ SimInit /\ ChainInit /\ HbInit /\ EngineIdle /\ WsInit /\ CoreInit /\ PersistInit

SpecSign == InitSign /\ [][RtNext]_vars
SpecHub  == InitHub /\ [][HubNext]_vars
SpecPolicy == InitPolicy /\ [][PolNext]_vars
SpecQuantum == InitQuantum /\ [][QsNext]_vars
SpecStamp == InitStamp /\ [][StampNext]_vars
SpecLog == InitLog /\ [][LogNext]_vars
SpecSim == InitSim /\ [][SimNext]_vars
SpecAgent == InitAgent /\ [][AgNext]_vars
SpecAgentFair == InitAgent /\ [][AgNext]_vars /\ AgFairness
SpecChain == InitChain /\ [][ChainNext]_vars
SpecEngine == InitEngine /\ [][EngineNext]_vars
SpecWs == InitWs /\ [][WsNext]_vars
SpecPersist == InitPersist /\ [][PersistNext]_vars
SpecCore == InitCore /\ [][CoreNext]_vars /\ CoreFairness
SpecHeartbeat == InitHeartbeat /\ [][HbNext]_vars /\ HbFairness

=============================================================================
